---- MODULE Spec2Model ----
(***************************************************************************)
(* CanvasStudio: the zustand canvas store (image queue, transform, crop,   *)
(* filter, ratio and preview-size actions), the pure crop / transform /    *)
(* ratio helpers it calls, and the export path, as a state machine.        *)
(*                                                                         *)
(* JavaScript numbers are modelled as exact rationals <<n, d>> (d > 0, in  *)
(* lowest terms), so that every comparison, min, max and division of the   *)
(* source is computed as the source computes it over the reals.            *)
(***************************************************************************)
EXTENDS Integers, Sequences, FiniteSets, TLC

VARIABLES
    store,      \* the zustand state object (CanvasSettings + ImageQueueState)
    inflight,   \* async action calls suspended at an await
    nextId,     \* next fresh image id handed out by loadImageFromFile
    nextCall,   \* next call number of an async filter action
    steps,      \* number of actions taken so far
    last,       \* what the last step did (observation of the step just taken)
    filterReq,  \* per image: the latest filter request and its outcome
    exports,    \* the render calls made by the export path so far
    hook        \* the React state of one useExportImage instance

vars == <<store, inflight, nextId, nextCall, steps, last, filterReq, exports, hook>>

-----------------------------------------------------------------------------
(* Exact rational arithmetic for JavaScript numbers.                        *)

RECURSIVE Gcd(_, _)
Gcd(a, b) == IF b = 0 THEN a ELSE Gcd(b, a % b)

IAbs(n) == IF n < 0 THEN -n ELSE n

\* n/d in lowest terms; as in JavaScript a non-zero number over 0 is an
\* infinity (<<1, 0>> or <<-1, 0>>) and 0/0 is NaN (<<0, 0>>)
Rat(n, d) ==
    LET s == IF d < 0 THEN -1 ELSE 1
        g == Gcd(IAbs(n), IAbs(d))
    IN  IF g = 0 THEN <<0, 0>> ELSE <<(s * n) \div g, (s * d) \div g>>

Num(k) == <<k, 1>>

RAdd(a, b) == Rat(a[1] * b[2] + b[1] * a[2], a[2] * b[2])
RSub(a, b) == Rat(a[1] * b[2] - b[1] * a[2], a[2] * b[2])
RMul(a, b) == Rat(a[1] * b[1], a[2] * b[2])
RDiv(a, b) == Rat(a[1] * b[2], a[2] * b[1])
RNeg(a) == <<-a[1], a[2]>>
RLt(a, b) == a[1] * b[2] < b[1] * a[2]
RLe(a, b) == a[1] * b[2] <= b[1] * a[2]
RMin(a, b) == IF RLt(b, a) THEN b ELSE a
RMax(a, b) == IF RLt(a, b) THEN b ELSE a
RAbs(a) == <<IAbs(a[1]), a[2]>>
RHalf(a) == Rat(a[1], 2 * a[2])

Zero == Num(0)
One == Num(1)

-----------------------------------------------------------------------------
(* Constants of lib/canvas/constants.ts and lib/canvas/crop.ts.             *)

SCALE_MIN == Rat(1, 20)
SCALE_MAX == Num(8)
SCALE_DEFAULT_MULTIPLIER == Rat(19, 20)
ASPECT_RATIO_THRESHOLD == Rat(1, 100)
SNAP_THRESHOLD == Num(2)
MIN_CROP_SIZE == Rat(1, 20)

\* null / undefined, shaped like the value they stand in for: a record for an
\* absent object, <<0, 0>> for an absent number, 0 for an absent image id
Null == [null |-> TRUE]
Undefined == <<0, 0>>
NoId == 0

-----------------------------------------------------------------------------
(* lib/canvas/crop.ts: pure crop functions over normalized coordinates.     *)

Handles == {"nw", "n", "ne", "e", "se", "s", "sw", "w"}

createDefaultCrop ==
    [x |-> Zero, y |-> Zero, width |-> One, height |-> One,
     aspectLock |-> FALSE, lockedAspect |-> Undefined]

\* A variant that anchors the crop at the top-left corner.
computeCropFromAspectTopLeft(imageAspect, targetAspect) ==
    LET wide == RLt(imageAspect, targetAspect)
        width == IF wide THEN One ELSE RDiv(targetAspect, imageAspect)
        height == IF wide THEN RDiv(imageAspect, targetAspect) ELSE One
    IN  [x |-> Zero, y |-> Zero,
         width |-> width, height |-> height,
         aspectLock |-> TRUE, lockedAspect |-> targetAspect]

computeCropFromAspect(imageAspect, targetAspect) ==
    LET wide == RLt(imageAspect, targetAspect)
        width == IF wide THEN One ELSE RDiv(targetAspect, imageAspect)
        height == IF wide THEN RDiv(imageAspect, targetAspect) ELSE One
    IN  [x |-> RHalf(RSub(One, width)), y |-> RHalf(RSub(One, height)),
         width |-> width, height |-> height,
         aspectLock |-> TRUE, lockedAspect |-> targetAspect]

\* JavaScript truthiness of crop.aspectLock && crop.lockedAspect
IsLocked(crop) ==
    crop.aspectLock /\ crop.lockedAspect # Undefined /\ crop.lockedAspect # Zero

\* A variant whose minimum clamp takes its factor from the sizes passed in.
clampCropToBoundsStaleMinimum(crop) ==
    LET minSize == MIN_CROP_SIZE
        w0 == crop.width
        h0 == crop.height
        over == RLt(One, w0) \/ RLt(One, h0)
        s1 == RMin(RDiv(One, w0), RDiv(One, h0))
        w1 == IF over THEN RMul(w0, s1) ELSE w0
        h1 == IF over THEN RMul(h0, s1) ELSE h0
        under == RLt(w1, minSize) \/ RLt(h1, minSize)
        s2 == RMax(RDiv(minSize, w0), RDiv(minSize, h0))
        w2 == IF under THEN RMul(w1, s2) ELSE w1
        h2 == IF under THEN RMul(h1, s2) ELSE h1
        width == IF IsLocked(crop) THEN w2 ELSE RMax(minSize, RMin(One, w0))
        height == IF IsLocked(crop) THEN h2 ELSE RMax(minSize, RMin(One, h0))
        x == RMax(Zero, RMin(RSub(One, width), crop.x))
        y == RMax(Zero, RMin(RSub(One, height), crop.y))
    IN  [crop EXCEPT !.x = x, !.y = y, !.width = width, !.height = height]

clampCropToBounds(crop) ==
    LET minSize == MIN_CROP_SIZE
        w0 == crop.width
        h0 == crop.height
        \* locked: scale down uniformly when a dimension exceeds 1
        over == RLt(One, w0) \/ RLt(One, h0)
        s1 == RMin(RDiv(One, w0), RDiv(One, h0))
        w1 == IF over THEN RMul(w0, s1) ELSE w0
        h1 == IF over THEN RMul(h0, s1) ELSE h0
        \* locked: scale up uniformly when a dimension is below minSize
        under == RLt(w1, minSize) \/ RLt(h1, minSize)
        s2 == RMax(RDiv(minSize, w1), RDiv(minSize, h1))
        w2 == IF under THEN RMul(w1, s2) ELSE w1
        h2 == IF under THEN RMul(h1, s2) ELSE h1
        width == IF IsLocked(crop) THEN w2 ELSE RMax(minSize, RMin(One, w0))
        height == IF IsLocked(crop) THEN h2 ELSE RMax(minSize, RMin(One, h0))
        x == RMax(Zero, RMin(RSub(One, width), crop.x))
        y == RMax(Zero, RMin(RSub(One, height), crop.y))
    IN  [crop EXCEPT !.x = x, !.y = y, !.width = width, !.height = height]

resizeCropFree(crop, handle, dx, dy) ==
    LET x == IF handle \in {"nw", "sw", "w"} THEN RAdd(crop.x, dx) ELSE crop.x
        y == IF handle \in {"nw", "n", "ne"} THEN RAdd(crop.y, dy) ELSE crop.y
        width == IF handle \in {"nw", "sw", "w"} THEN RSub(crop.width, dx)
                 ELSE IF handle \in {"ne", "e", "se"} THEN RAdd(crop.width, dx)
                 ELSE crop.width
        height == IF handle \in {"nw", "n", "ne"} THEN RSub(crop.height, dy)
                  ELSE IF handle \in {"se", "s", "sw"} THEN RAdd(crop.height, dy)
                  ELSE crop.height
    IN  clampCropToBounds(
            [crop EXCEPT !.x = x, !.y = y, !.width = width, !.height = height])

\* The "ensure positive dimensions" step of resizeCropAspectLocked.
EnsurePositive(v) == RMax(MIN_CROP_SIZE, v)

resizeCropAspectLocked(crop, handle, dx, dy, aspect) ==
    LET \* edge handles: one dimension follows the cursor, the other the aspect
        eW == IF handle = "e" THEN RAdd(crop.width, dx) ELSE RSub(crop.width, dx)
        eH == RDiv(eW, aspect)
        sH == IF handle = "s" THEN RAdd(crop.height, dy) ELSE RSub(crop.height, dy)
        sW == RMul(sH, aspect)
        \* corner handles: two candidates, the smaller one drives
        widthFromDx == IF handle \in {"se", "ne"} THEN RAdd(crop.width, dx)
                       ELSE RSub(crop.width, dx)
        heightFromDy == IF handle \in {"se", "sw"} THEN RAdd(crop.height, dy)
                        ELSE RSub(crop.height, dy)
        widthFromHeight == RMul(heightFromDy, aspect)
        byWidth == RLt(widthFromDx, widthFromHeight)
        cW == IF byWidth THEN RMax(MIN_CROP_SIZE, widthFromDx)
              ELSE RMul(RMax(MIN_CROP_SIZE, heightFromDy), aspect)
        cH == IF byWidth THEN RDiv(RMax(MIN_CROP_SIZE, widthFromDx), aspect)
              ELSE RMax(MIN_CROP_SIZE, heightFromDy)
        newWidth == IF handle \in {"e", "w"} THEN eW
                    ELSE IF handle \in {"s", "n"} THEN sW ELSE cW
        newHeight == IF handle \in {"e", "w"} THEN eH
                     ELSE IF handle \in {"s", "n"} THEN sH ELSE cH
        right == RAdd(crop.x, crop.width)
        bottom == RAdd(crop.y, crop.height)
        newX == IF handle \in {"w", "sw", "nw"} THEN RSub(right, newWidth)
                ELSE IF handle \in {"s", "n"}
                     THEN RAdd(crop.x, RHalf(RSub(crop.width, newWidth)))
                ELSE crop.x
        newY == IF handle \in {"n", "ne", "nw"} THEN RSub(bottom, newHeight)
                ELSE IF handle \in {"e", "w"}
                     THEN RAdd(crop.y, RHalf(RSub(crop.height, newHeight)))
                ELSE crop.y
    IN  clampCropToBounds(
            [crop EXCEPT !.x = newX, !.y = newY,
                         !.width = EnsurePositive(newWidth),
                         !.height = EnsurePositive(newHeight)])

resizeCropFromHandle(crop, handle, dx, dy, imageAspect) ==
    IF ~IsLocked(crop)
    THEN resizeCropFree(crop, handle, dx, dy)
    ELSE resizeCropAspectLocked(crop, handle, dx, dy,
                                RDiv(crop.lockedAspect, imageAspect))

moveCrop(crop, dx, dy) ==
    clampCropToBounds(
        [crop EXCEPT !.x = RAdd(crop.x, dx), !.y = RAdd(crop.y, dy)])

getEffectiveDimensions(image, crop) ==
    IF crop = Null
    THEN [width |-> Num(image.width), height |-> Num(image.height)]
    ELSE [width |-> RMul(Num(image.width), crop.width),
          height |-> RMul(Num(image.height), crop.height)]

getCropCenterOffset(image, crop) ==
    IF crop = Null
    THEN [x |-> Zero, y |-> Zero]
    ELSE [x |-> RMul(RSub(RAdd(crop.x, RHalf(crop.width)), Rat(1, 2)),
                     Num(image.width)),
          y |-> RMul(RSub(RAdd(crop.y, RHalf(crop.height)), Rat(1, 2)),
                     Num(image.height))]

cropToCanvasCoords(crop, image, transform, canvasWidth, canvasHeight) ==
    LET displayWidth == RMul(Num(image.width), transform.scale)
        displayHeight == RMul(Num(image.height), transform.scale)
        imageLeft == RAdd(RSub(RHalf(canvasWidth), RHalf(displayWidth)), transform.x)
        imageTop == RAdd(RSub(RHalf(canvasHeight), RHalf(displayHeight)), transform.y)
    IN  [x |-> RAdd(imageLeft, RMul(RMul(crop.x, Num(image.width)), transform.scale)),
         y |-> RAdd(imageTop, RMul(RMul(crop.y, Num(image.height)), transform.scale)),
         width |-> RMul(RMul(crop.width, Num(image.width)), transform.scale),
         height |-> RMul(RMul(crop.height, Num(image.height)), transform.scale)]


-----------------------------------------------------------------------------
(* lib/canvas/ratios.ts, lib/canvas/math.ts, lib/canvas/transform.ts.       *)

RatioIds == {"1:1", "3:2", "2:3", "5:4", "4:5", "16:9", "9:16", "original", "custom"}

RATIO_PRESETS(id) ==
    CASE id = "1:1" -> One
      [] id = "3:2" -> Rat(3, 2)
      [] id = "2:3" -> Rat(2, 3)
      [] id = "5:4" -> Rat(5, 4)
      [] id = "4:5" -> Rat(4, 5)
      [] id = "16:9" -> Rat(16, 9)
      [] id = "9:16" -> Rat(9, 16)
      [] OTHER -> Undefined

DEFAULT_RATIO_ID == "3:2"

\* image is an ImageMetadata record or Null, crop a CropState or Null
findRatioValue(id, custom, image, crop) ==
    IF id = "original"
    THEN IF image # Null
         THEN IF crop # Null
              THEN RDiv(RMul(Num(image.width), crop.width),
                        RMul(Num(image.height), crop.height))
              ELSE RDiv(Num(image.width), Num(image.height))
         ELSE One
    ELSE IF id = "custom"
    THEN IF custom.width > 0 /\ custom.height > 0
         THEN RDiv(Num(custom.width), Num(custom.height))
         ELSE One
    ELSE IF RATIO_PRESETS(id) # Undefined THEN RATIO_PRESETS(id) ELSE One

clamp(value, min, max) == RMin(RMax(value, min), max)

\* A variant that covers the canvas instead of fitting inside it.
computeFitScaleCovering(image, canvasWidth, canvasHeight, crop) ==
    LET eff == getEffectiveDimensions(image, crop)
    IN  IF RLe(canvasWidth, Zero) \/ RLe(canvasHeight, Zero)
           \/ RLe(eff.width, Zero) \/ RLe(eff.height, Zero)
        THEN SCALE_MIN
        ELSE RMax(RDiv(canvasWidth, eff.width), RDiv(canvasHeight, eff.height))

computeFitScale(image, canvasWidth, canvasHeight, crop) ==
    LET eff == getEffectiveDimensions(image, crop)
    IN  IF RLe(canvasWidth, Zero) \/ RLe(canvasHeight, Zero)
           \/ RLe(eff.width, Zero) \/ RLe(eff.height, Zero)
        THEN SCALE_MIN
        ELSE RMin(RDiv(canvasWidth, eff.width), RDiv(canvasHeight, eff.height))

computeDefaultScale(image, canvasWidth, canvasHeight, crop) ==
    RMax(RMul(computeFitScale(image, canvasWidth, canvasHeight, crop),
              SCALE_DEFAULT_MULTIPLIER),
         SCALE_MIN)

\* A variant that centers the whole image, whatever its crop.
computeInitialTransformUncentered(image, canvasWidth, canvasHeight, crop) ==
    [x |-> Zero, y |-> Zero,
     scale |-> computeDefaultScale(image, canvasWidth, canvasHeight, crop)]

computeInitialTransform(image, canvasWidth, canvasHeight, crop) ==
    LET scale == computeDefaultScale(image, canvasWidth, canvasHeight, crop)
        cropOffset == getCropCenterOffset(image, crop)
    IN  [x |-> RMul(RNeg(cropOffset.x), scale),
         y |-> RMul(RNeg(cropOffset.y), scale),
         scale |-> scale]

\* A variant whose dead zone includes the threshold itself.
applySnapToTransformInclusive(transform, centerSnap) ==
    IF ~centerSnap THEN transform
    ELSE [transform EXCEPT
            !.x = IF RLe(RAbs(transform.x), SNAP_THRESHOLD) THEN Zero ELSE transform.x,
            !.y = IF RLe(RAbs(transform.y), SNAP_THRESHOLD) THEN Zero ELSE transform.y]

applySnapToTransform(transform, centerSnap) ==
    IF ~centerSnap THEN transform
    ELSE [transform EXCEPT
            !.x = IF RLt(RAbs(transform.x), SNAP_THRESHOLD) THEN Zero ELSE transform.x,
            !.y = IF RLt(RAbs(transform.y), SNAP_THRESHOLD) THEN Zero ELSE transform.y]

\* partial is a record whose absent fields are Undefined
mergeTransform(current, partial) ==
    [x |-> IF partial.x = Undefined THEN current.x ELSE partial.x,
     y |-> IF partial.y = Undefined THEN current.y ELSE partial.y,
     scale |-> IF partial.scale = Undefined THEN current.scale ELSE partial.scale]

applyPositionDelta(transform, delta) ==
    [transform EXCEPT !.x = RAdd(transform.x, delta.x),
                      !.y = RAdd(transform.y, delta.y)]

-----------------------------------------------------------------------------
(* state/canvasStore.ts: internal helpers. A store state s is the record    *)
(* of the zustand store; every synchronous action is a function of it.      *)

RECURSIVE FindIndex(_, _, _)
FindIndex(images, id, k) ==
    IF k > Len(images) THEN 0
    ELSE IF images[k].image.id = id THEN k
    ELSE FindIndex(images, id, k + 1)

InQueue(images, id) == FindIndex(images, id, 1) # 0

getActiveImageState(s) ==
    IF s.activeImageId = NoId THEN Null
    ELSE IF InQueue(s.images, s.activeImageId)
         THEN s.images[FindIndex(s.images, s.activeImageId, 1)]
         ELSE Null

\* images.map(img => img.image.id === imageId ? updater(img) : img); the
\* updater is given as the fields it overwrites
UpdateTransformIn(images, imageId, transform, isEdited) ==
    [k \in 1..Len(images) |->
        IF images[k].image.id = imageId
        THEN [images[k] EXCEPT !.transform = transform, !.isEdited = isEdited]
        ELSE images[k]]

UpdateCropIn(images, imageId, crop, isEdited) ==
    [k \in 1..Len(images) |->
        IF images[k].image.id = imageId
        THEN [images[k] EXCEPT !.crop = crop, !.isEdited = isEdited]
        ELSE images[k]]

updateImageInQueue(images, imageId, filter) ==
    [k \in 1..Len(images) |->
        IF images[k].image.id = imageId
        THEN [images[k] EXCEPT !.filter = filter]
        ELSE images[k]]

fitActiveImageToPreview(s) ==
    LET activeImage == getActiveImageState(s)
    IN  IF activeImage = Null \/ s.previewSize = Null THEN s
        ELSE [s EXCEPT
                !.images = UpdateTransformIn(s.images, activeImage.image.id,
                              computeInitialTransform(activeImage.image,
                                  s.previewSize.width, s.previewSize.height,
                                  activeImage.crop),
                              FALSE),
                !.needsInitialFit = FALSE]

getRatioValue(s) ==
    LET activeImage == getActiveImageState(s)
    IN  findRatioValue(s.ratioId, s.customRatio,
                       IF activeImage = Null THEN Null ELSE activeImage.image,
                       IF activeImage = Null THEN Null ELSE activeImage.crop)

InitialStore ==
    [ratioId |-> DEFAULT_RATIO_ID,
     customRatio |-> [width |-> 4, height |-> 5],
     background |-> "#ffffff",
     centerSnap |-> TRUE,
     previewSize |-> Null,
     cropMode |-> FALSE,
     images |-> <<>>,
     activeImageId |-> NoId,
     needsInitialFit |-> FALSE]

NewImageState(image) ==
    [image |-> image,
     transform |-> [x |-> Zero, y |-> Zero, scale |-> One],
     crop |-> Null,
     filter |-> Null,
     isEdited |-> FALSE]


-----------------------------------------------------------------------------
(* state/canvasStore.ts: the synchronous actions (and the synchronous       *)
(* tail of the asynchronous ones) as functions of the store state.          *)

\* A variant that always leaves the fit to the next setPreviewSize.
loadImageLeavingFitPending(s, image) ==
    [s EXCEPT !.images = Append(s.images, NewImageState(image)),
              !.activeImageId = image.id,
              !.needsInitialFit = TRUE]

\* loadImage after `await loadImageFromFile(file)`
loadImage(s, image) ==
    LET s1 == [s EXCEPT !.images = Append(s.images, NewImageState(image)),
                        !.activeImageId = image.id,
                        !.needsInitialFit = TRUE]
    IN  IF s.previewSize # Null THEN fitActiveImageToPreview(s1) ELSE s1

\* loadImages after `await loadImagesFromFiles(files)`; loaded is non-empty
loadImages(s, loaded) ==
    LET s1 == [s EXCEPT
                 !.images = s.images \o [k \in 1..Len(loaded) |-> NewImageState(loaded[k])],
                 !.activeImageId = IF s.activeImageId = NoId THEN loaded[1].id
                                   ELSE s.activeImageId,
                 !.needsInitialFit = TRUE]
    IN  IF s.previewSize # Null THEN fitActiveImageToPreview(s1) ELSE s1

\* A variant that re-fits every unedited image, whatever its scale.
setActiveImageRefittingUnedited(s, id) ==
    IF ~InQueue(s.images, id) THEN s
    ELSE LET targetImage == s.images[FindIndex(s.images, id, 1)]
             needsFit == ~targetImage.isEdited
             s1 == [s EXCEPT !.activeImageId = id, !.needsInitialFit = needsFit]
         IN  IF needsFit /\ s.previewSize # Null
             THEN fitActiveImageToPreview(s1) ELSE s1

setActiveImage(s, id) ==
    IF ~InQueue(s.images, id) THEN s
    ELSE LET targetImage == s.images[FindIndex(s.images, id, 1)]
             needsFit == ~targetImage.isEdited /\ targetImage.transform.scale = One
             s1 == [s EXCEPT !.activeImageId = id, !.needsInitialFit = needsFit]
         IN  IF needsFit /\ s.previewSize # Null
             THEN fitActiveImageToPreview(s1) ELSE s1

RemoveAt(images, k) ==
    [j \in 1..(Len(images) - 1) |-> IF j < k THEN images[j] ELSE images[j + 1]]

removeImage(s, id) ==
    LET removedIndex == FindIndex(s.images, id, 1)
        newImages == IF removedIndex = 0 THEN s.images
                     ELSE RemoveAt(s.images, removedIndex)
        newActiveId ==
            IF s.activeImageId = id
            THEN IF Len(newImages) > 0
                 THEN newImages[IF removedIndex < Len(newImages)
                                THEN removedIndex ELSE Len(newImages)].image.id
                 ELSE NoId
            ELSE s.activeImageId
    IN  [s EXCEPT !.images = newImages, !.activeImageId = newActiveId]

clearAllImages(s) == [s EXCEPT !.images = <<>>, !.activeImageId = NoId]

\* set the pending-fit flag when the resolved ratio moved by more than the threshold
FlagRatioChange(old, new) ==
    IF RLt(ASPECT_RATIO_THRESHOLD, RAbs(RSub(getRatioValue(new), getRatioValue(old))))
       /\ Len(new.images) > 0
    THEN [new EXCEPT !.needsInitialFit = TRUE]
    ELSE new

setRatio(s, id) == FlagRatioChange(s, [s EXCEPT !.ratioId = id])

setCustomRatio(s, payload) ==
    FlagRatioChange(s, [s EXCEPT !.customRatio = payload, !.ratioId = "custom"])

updateTransform(s, partial) ==
    LET activeImage == getActiveImageState(s)
    IN  IF activeImage = Null THEN s
        ELSE [s EXCEPT !.images =
                UpdateTransformIn(s.images, activeImage.image.id,
                    applySnapToTransform(mergeTransform(activeImage.transform, partial),
                                         s.centerSnap),
                    TRUE)]

nudgePosition(s, delta) ==
    LET activeImage == getActiveImageState(s)
    IN  IF activeImage = Null THEN s
        ELSE [s EXCEPT !.images =
                UpdateTransformIn(s.images, activeImage.image.id,
                    applySnapToTransform(applyPositionDelta(activeImage.transform, delta),
                                         s.centerSnap),
                    TRUE)]

adjustScale(s, factor) ==
    LET activeImage == getActiveImageState(s)
    IN  IF activeImage = Null THEN s
        ELSE [s EXCEPT !.images =
                UpdateTransformIn(s.images, activeImage.image.id,
                    [activeImage.transform EXCEPT
                        !.scale = clamp(RMul(activeImage.transform.scale, factor),
                                        SCALE_MIN, SCALE_MAX)],
                    TRUE)]

setScale(s, value) ==
    LET activeImage == getActiveImageState(s)
    IN  IF activeImage = Null THEN s
        ELSE [s EXCEPT !.images =
                UpdateTransformIn(s.images, activeImage.image.id,
                    [activeImage.transform EXCEPT
                        !.scale = clamp(value, SCALE_MIN, SCALE_MAX)],
                    TRUE)]

resetTransform(s) == fitActiveImageToPreview(s)

fitImageToCanvas(s) == fitActiveImageToPreview(s)

setCrop(s, crop) ==
    LET activeImage == getActiveImageState(s)
    IN  IF activeImage = Null THEN s
        ELSE [s EXCEPT !.images =
                UpdateCropIn(s.images, activeImage.image.id, crop, TRUE)]

\* partial is a record holding only the fields it overwrites
updateCrop(s, partial) ==
    LET activeImage == getActiveImageState(s)
    IN  IF activeImage = Null THEN s
        ELSE IF activeImage.crop = Null THEN s
        ELSE [s EXCEPT !.images =
                UpdateCropIn(s.images, activeImage.image.id,
                    [f \in DOMAIN activeImage.crop |->
                        IF f \in DOMAIN partial THEN partial[f]
                        ELSE activeImage.crop[f]],
                    TRUE)]

resetCrop(s) ==
    LET activeImage == getActiveImageState(s)
    IN  IF activeImage = Null THEN s
        ELSE [s EXCEPT !.images = UpdateCropIn(s.images, activeImage.image.id,
                                               Null, activeImage.isEdited),
                       !.cropMode = FALSE]

\* A variant whose exit from crop mode drops the crop.
toggleCropModeDroppingCrop(s) ==
    LET activeImage == getActiveImageState(s)
        newCropMode == ~s.cropMode
    IN  IF activeImage = Null /\ ~s.cropMode THEN s
        ELSE IF activeImage # Null /\ (~newCropMode \/ activeImage.crop = Null)
        THEN [s EXCEPT !.images = UpdateCropIn(s.images, activeImage.image.id,
                                     IF newCropMode THEN createDefaultCrop ELSE Null,
                                     activeImage.isEdited),
                       !.cropMode = newCropMode]
        ELSE [s EXCEPT !.cropMode = newCropMode]

toggleCropMode(s) ==
    LET activeImage == getActiveImageState(s)
        newCropMode == ~s.cropMode
    IN  IF activeImage = Null /\ ~s.cropMode THEN s
        ELSE IF newCropMode /\ activeImage # Null /\ activeImage.crop = Null
        THEN [s EXCEPT !.images = UpdateCropIn(s.images, activeImage.image.id,
                                               createDefaultCrop, activeImage.isEdited),
                       !.cropMode = newCropMode]
        ELSE [s EXCEPT !.cropMode = newCropMode]

setCropAspectLock(s, lock, aspect) ==
    LET activeImage == getActiveImageState(s)
    IN  IF activeImage = Null THEN s
        ELSE IF activeImage.crop = Null THEN s
        ELSE [s EXCEPT !.images =
                UpdateCropIn(s.images, activeImage.image.id,
                    [activeImage.crop EXCEPT
                        !.aspectLock = lock,
                        !.lockedAspect = IF lock THEN aspect ELSE Undefined],
                    activeImage.isEdited)]

setFilterIntensity(s, intensity) ==
    LET activeImage == getActiveImageState(s)
    IN  IF activeImage = Null THEN s
        ELSE IF activeImage.filter = Null THEN s
        ELSE [s EXCEPT !.images =
                updateImageInQueue(s.images, activeImage.image.id,
                    [activeImage.filter EXCEPT !.intensity = clamp(intensity, Zero, One)])]

removeFilter(s) ==
    LET activeImage == getActiveImageState(s)
    IN  IF activeImage = Null THEN s
        ELSE [s EXCEPT !.images =
                updateImageInQueue(s.images, activeImage.image.id, Null)]

setCenterSnap(s, value) == [s EXCEPT !.centerSnap = value]

setBackground(s, value) == [s EXCEPT !.background = value]

Aspect(size) == RDiv(size.width, size.height)

\* A variant without the aspect-ratio threshold: any later size re-fits.
setPreviewSizeOnAnyResize(s, size) ==
    LET oldSize == s.previewSize
        s1 == [s EXCEPT !.previewSize = size]
    IN  IF s.needsInitialFit /\ Len(s.images) > 0
        THEN fitActiveImageToPreview(s1)
        ELSE IF oldSize = Null /\ Len(s.images) > 0
        THEN fitActiveImageToPreview(s1)
        ELSE IF oldSize # Null /\ Len(s.images) > 0
        THEN fitActiveImageToPreview(s1)
        ELSE s1

setPreviewSize(s, size) ==
    LET oldSize == s.previewSize
        s1 == [s EXCEPT !.previewSize = size]
    IN  IF s.needsInitialFit /\ Len(s.images) > 0
        THEN fitActiveImageToPreview(s1)
        ELSE IF oldSize = Null /\ Len(s.images) > 0
        THEN fitActiveImageToPreview(s1)
        ELSE IF oldSize # Null /\ Len(s.images) > 0
                /\ RLt(ASPECT_RATIO_THRESHOLD,
                       RAbs(RSub(Aspect(size), Aspect(oldSize))))
        THEN fitActiveImageToPreview(s1)
        ELSE s1


-----------------------------------------------------------------------------
(* Filters: lib/filters/presets.ts, lib/filters/loader.ts,                  *)
(* lib/filters/formats/cube.ts, lib/filters/cache.ts.                       *)

BUILTIN_FILTERS == {"xpro3-eterna", "xpro3-flog"}

\* What can happen to one built-in or uploaded LUT load.
\*   fetchFailed  loadBuiltinFilter: response.ok is false
\*   noLoader     filterLoaderRegistry.findLoader(file) finds none
\*   invalidSize  CubeLoader.load: LUT_3D_SIZE outside 2..256
\*   badLength    validateLUTData: table length # size^3 * 3
LoadOutcomes == {"ok", "fetchFailed", "noLoader", "invalidSize", "badLength"}

\* the filterId argument null of setFilter
NullFilterId == "null"

\* A variant that looks the filter up before it looks for the active image.
setFilterEntryLookupFirst(s, filterId) ==
    IF filterId # NullFilterId /\ filterId \notin BUILTIN_FILTERS THEN "threw"
    ELSE IF getActiveImageState(s) = Null THEN "returned"
    ELSE IF filterId = NullFilterId THEN "removed"
    ELSE "awaiting"

\* setFilter(filterId) up to its first await: how the call leaves its
\* synchronous head
setFilterEntry(s, filterId) ==
    IF getActiveImageState(s) = Null THEN "returned"
    ELSE IF filterId = NullFilterId THEN "removed"
    ELSE IF filterId \notin BUILTIN_FILTERS THEN "threw"
    ELSE "awaiting"

\* loadFilterFromFile(file) up to its first await
loadFilterFromFileEntry(s, hasLoader) ==
    IF getActiveImageState(s) = Null THEN "returned"
    ELSE IF ~hasLoader THEN "threw"
    ELSE "awaiting"

\* loader.load(file) of a well-formed file: the parsed LUT
LutOf(filterId) == [lut |-> filterId]

\* generateFilteredImageFull(image, lutData): the fully graded raster
generateFilteredImageFull(image, lutData) == [graded |-> image.id, with |-> lutData]

\* the FilterState setFilter builds (no built-in has a recommendedIntensity)
BuiltinFilterState(image, filterId) ==
    [filterId |-> filterId,
     lutData |-> LutOf(filterId),
     intensity |-> clamp(One, Zero, One),
     filteredImageFull |-> generateFilteredImageFull(image, LutOf(filterId))]

\* `user-${crypto.randomUUID()}`: a fresh id per loadFilterFromFile call
UserFilterIds == <<"user-1", "user-2", "user-3", "user-4", "user-5", "user-6">>
UserFilterId(call) ==
    IF call \in 1..Len(UserFilterIds) THEN UserFilterIds[call] ELSE "user-n"

\* the FilterState loadFilterFromFile builds
UserFilterState(image, call) ==
    [filterId |-> UserFilterId(call),
     lutData |-> LutOf(UserFilterId(call)),
     intensity |-> One,
     filteredImageFull |-> generateFilteredImageFull(image, LutOf(UserFilterId(call)))]

\* The images array a completing setFilter / loadFilterFromFile passes to
\* updateImageInQueue: `state.images`, where `state` was read by get() when
\* the action was called, before its awaits.
ImagesWrittenBack(call, current) == call.images

\* A variant that rolls the image back to "no filter" when the load fails.
SettleFilterLoadRollingBack(s, call, outcome, filterState) ==
    IF outcome = "ok"
    THEN [s EXCEPT !.images =
            updateImageInQueue(ImagesWrittenBack(call, s.images),
                               call.target.id, filterState)]
    ELSE [s EXCEPT !.images = updateImageInQueue(s.images, call.target.id, Null)]

\* The store write a filter load makes when it settles with `outcome`.
SettleFilterLoad(s, call, outcome, filterState) ==
    IF outcome = "ok"
    THEN [s EXCEPT !.images =
            updateImageInQueue(ImagesWrittenBack(call, s.images),
                               call.target.id, filterState)]
    ELSE s


-----------------------------------------------------------------------------
(* The state machine: one action per store action; an asynchronous action   *)
(* is a call step (up to its first await) and a settle step (from the last  *)
(* await to its end).                                                       *)

MaxSteps == 7
MaxImages == 2
MaxCalls == 3

ImageIds == 1..(MaxImages + 1)

NoRequest == [call |-> 0, filterId |-> "null", status |-> "none"]

\* useState(false), useState(null), useState(null) of useExportImage
InitialHook == [isExporting |-> FALSE, exportProgress |-> Null, error |-> Null]

Init ==
    /\ store = InitialStore
    /\ inflight = {}
    /\ nextId = 1
    /\ nextCall = 1
    /\ steps = 0
    /\ last = [op |-> "init", id |-> NoId, call |-> 0, outcome |-> "done"]
    /\ filterReq = [i \in ImageIds |-> NoRequest]
    /\ exports = {}
    /\ hook = InitialHook

ActiveId(s) ==
    IF getActiveImageState(s) = Null THEN NoId ELSE getActiveImageState(s).image.id

\* a synchronous store action taking the store to s2
Sync(op, s2) ==
    /\ steps < MaxSteps
    /\ store' = s2
    /\ steps' = steps + 1
    /\ last' = [op |-> op, id |-> ActiveId(store), call |-> 0, outcome |-> "done"]
    /\ UNCHANGED <<inflight, nextId, nextCall, filterReq, exports, hook>>

\* ---------------- image queue ----------------

\* images that calls still in flight will add to the queue
PendingImages ==
    Cardinality({c \in inflight : c.kind = "loadImage"})
    + (IF \E c \in inflight : c.kind = "loadImages"
       THEN Len((CHOOSE c \in inflight : c.kind = "loadImages").dims) ELSE 0)

LoadImageCall(width, height) ==
    /\ steps < MaxSteps
    /\ nextCall <= MaxCalls
    /\ PendingImages + nextId <= MaxImages
    /\ inflight' = inflight \cup
         {[kind |-> "loadImage", call |-> nextCall, width |-> width, height |-> height]}
    /\ nextCall' = nextCall + 1
    /\ steps' = steps + 1
    /\ last' = [op |-> "loadImage.call", id |-> NoId, call |-> nextCall, outcome |-> "pending"]
    /\ UNCHANGED <<store, nextId, filterReq, exports, hook>>

LoadImageSettle(c) ==
    /\ c \in inflight
    /\ c.kind = "loadImage"
    /\ steps < MaxSteps
    /\ inflight' = inflight \ {c}
    /\ store' = loadImage(store, [id |-> nextId, width |-> c.width, height |-> c.height])
    /\ nextId' = nextId + 1
    /\ steps' = steps + 1
    /\ last' = [op |-> "loadImage", id |-> nextId, call |-> c.call, outcome |-> "resolved"]
    /\ UNCHANGED <<nextCall, filterReq, exports, hook>>

\* the filmstrip offers the queued images
SetActiveImage(id) ==
    /\ InQueue(store.images, id)
    /\ Sync("setActiveImage", setActiveImage(store, id))

RemoveImage(id) ==
    /\ InQueue(store.images, id)
    /\ Sync("removeImage", removeImage(store, id))

\* ---------------- filters ----------------

\* setFilter(filterId) with a built-in id and an active image: runs to its
\* first await holding `state` and `activeImage`
SetFilterCall(filterId) ==
    /\ steps < MaxSteps
    /\ nextCall <= MaxCalls
    /\ getActiveImageState(store) # Null
    /\ filterId \in BUILTIN_FILTERS
    /\ inflight' = inflight \cup
         {[kind |-> "setFilter", call |-> nextCall, filterId |-> filterId,
           images |-> store.images, target |-> getActiveImageState(store).image,
           attempts |-> 1]}
    /\ nextCall' = nextCall + 1
    /\ steps' = steps + 1
    /\ filterReq' = [filterReq EXCEPT ![ActiveId(store)] =
                        [call |-> nextCall, filterId |-> filterId, status |-> "pending"]]
    /\ last' = [op |-> "setFilter.call", id |-> ActiveId(store), call |-> nextCall,
                outcome |-> "pending"]
    /\ UNCHANGED <<store, nextId, exports, hook>>

\* setFilter(null): the synchronous removal branch
SetFilterNull ==
    /\ getActiveImageState(store) # Null
    /\ filterReq' = [filterReq EXCEPT ![ActiveId(store)] =
                        [call |-> 0, filterId |-> "null", status |-> "removed"]]
    /\ steps < MaxSteps
    /\ store' = removeFilter(store)
    /\ steps' = steps + 1
    /\ last' = [op |-> "setFilter.null", id |-> ActiveId(store), call |-> 0, outcome |-> "resolved"]
    /\ UNCHANGED <<inflight, nextId, nextCall, exports, hook>>

\* setFilter with an id that is not in BUILTIN_FILTERS: throws before any load
SetFilterUnknown ==
    /\ getActiveImageState(store) # Null
    /\ steps < MaxSteps
    /\ steps' = steps + 1
    /\ last' = [op |-> "setFilter", id |-> ActiveId(store), call |-> 0, outcome |-> "rejected"]
    /\ UNCHANGED <<store, inflight, nextId, nextCall, filterReq, exports, hook>>

\* ghost: the outcome of the latest request of the call's image
NoteSettled(c, outcome) ==
    IF filterReq[c.target.id].call = c.call
    THEN [filterReq EXCEPT ![c.target.id].status =
            IF outcome = "ok" THEN "applied" ELSE "rejected"]
    ELSE filterReq

SetFilterSettle(c, outcome) ==
    /\ c \in inflight
    /\ c.kind = "setFilter"
    /\ steps < MaxSteps
    /\ inflight' = inflight \ {c}
    /\ store' = SettleFilterLoad(store, c, outcome,
                                 BuiltinFilterState(c.target, c.filterId))
    /\ steps' = steps + 1
    /\ filterReq' = NoteSettled(c, outcome)
    /\ last' = [op |-> "setFilter", id |-> c.target.id, call |-> c.call,
                outcome |-> IF outcome = "ok" THEN "resolved" ELSE "rejected"]
    /\ UNCHANGED <<nextId, nextCall, exports, hook>>

\* loadFilterFromFile(file) where a loader accepts the file
LoadFilterFromFileCall ==
    /\ steps < MaxSteps
    /\ nextCall <= MaxCalls
    /\ getActiveImageState(store) # Null
    /\ inflight' = inflight \cup
         {[kind |-> "loadFilterFromFile", call |-> nextCall,
           images |-> store.images, target |-> getActiveImageState(store).image,
           attempts |-> 1]}
    /\ nextCall' = nextCall + 1
    /\ steps' = steps + 1
    /\ filterReq' = [filterReq EXCEPT ![ActiveId(store)] =
                        [call |-> nextCall, filterId |-> UserFilterId(nextCall),
                         status |-> "pending"]]
    /\ last' = [op |-> "loadFilterFromFile.call", id |-> ActiveId(store), call |-> nextCall,
                outcome |-> "pending"]
    /\ UNCHANGED <<store, nextId, exports, hook>>

\* loadFilterFromFile(file) where no loader accepts the file: throws at once
LoadFilterFromFileNoLoader ==
    /\ getActiveImageState(store) # Null
    /\ steps < MaxSteps
    /\ steps' = steps + 1
    /\ last' = [op |-> "loadFilterFromFile", id |-> ActiveId(store), call |-> 0,
                outcome |-> "rejected"]
    /\ UNCHANGED <<store, inflight, nextId, nextCall, filterReq, exports, hook>>

LoadFilterFromFileSettle(c, outcome) ==
    /\ c \in inflight
    /\ c.kind = "loadFilterFromFile"
    /\ outcome \in {"ok", "invalidSize", "badLength"}
    /\ steps < MaxSteps
    /\ inflight' = inflight \ {c}
    /\ store' = SettleFilterLoad(store, c, outcome, UserFilterState(c.target, c.call))
    /\ steps' = steps + 1
    /\ filterReq' = NoteSettled(c, outcome)
    /\ last' = [op |-> "loadFilterFromFile", id |-> c.target.id, call |-> c.call,
                outcome |-> IF outcome = "ok" THEN "resolved" ELSE "rejected"]
    /\ UNCHANGED <<nextId, nextCall, exports, hook>>

SetFilterIntensity(v) ==
    Sync("setFilterIntensity", setFilterIntensity(store, v))

RemoveFilter ==
    /\ getActiveImageState(store) # Null
    /\ filterReq' = [filterReq EXCEPT ![ActiveId(store)] =
                        [call |-> 0, filterId |-> "null", status |-> "removed"]]
    /\ steps < MaxSteps
    /\ store' = removeFilter(store)
    /\ steps' = steps + 1
    /\ last' = [op |-> "removeFilter", id |-> ActiveId(store), call |-> 0, outcome |-> "done"]
    /\ UNCHANGED <<inflight, nextId, nextCall, exports, hook>>


\* loadImages(files) with two files
LoadImagesCall(dims) ==
    /\ steps < MaxSteps
    /\ nextCall <= MaxCalls
    /\ inflight = {}
    /\ nextId + Len(dims) - 1 <= MaxImages
    /\ inflight' = inflight \cup {[kind |-> "loadImages", call |-> nextCall, dims |-> dims]}
    /\ nextCall' = nextCall + 1
    /\ steps' = steps + 1
    /\ last' = [op |-> "loadImages.call", id |-> NoId, call |-> nextCall, outcome |-> "pending"]
    /\ UNCHANGED <<store, nextId, filterReq, exports, hook>>

LoadImagesSettle(c) ==
    /\ c \in inflight
    /\ c.kind = "loadImages"
    /\ steps < MaxSteps
    /\ inflight' = inflight \ {c}
    /\ store' = loadImages(store,
                    [k \in 1..Len(c.dims) |->
                        [id |-> nextId + k - 1, width |-> c.dims[k][1],
                         height |-> c.dims[k][2]]])
    /\ nextId' = nextId + Len(c.dims)
    /\ steps' = steps + 1
    /\ last' = [op |-> "loadImages", id |-> nextId, call |-> c.call, outcome |-> "resolved"]
    /\ UNCHANGED <<nextCall, filterReq, exports, hook>>

ClearAllImages == Sync("clearAllImages", clearAllImages(store))

\* ---------------- ratio, transform, crop, settings ----------------

SetRatio(id) == Sync("setRatio", setRatio(store, id))

SetCustomRatio(payload) == Sync("setCustomRatio", setCustomRatio(store, payload))

UpdateTransform(partial) == Sync("updateTransform", updateTransform(store, partial))

NudgePosition(delta) == Sync("nudgePosition", nudgePosition(store, delta))

AdjustScale(factor) == Sync("adjustScale", adjustScale(store, factor))

SetScale(value) == Sync("setScale", setScale(store, value))

ResetTransform == Sync("resetTransform", resetTransform(store))

FitImageToCanvas == Sync("fitImageToCanvas", fitImageToCanvas(store))

SetCrop(crop) == Sync("setCrop", setCrop(store, crop))

ResetCrop == Sync("resetCrop", resetCrop(store))

ToggleCropMode == Sync("toggleCropMode", toggleCropMode(store))

SetCropAspectLock(lock, aspect) ==
    Sync("setCropAspectLock", setCropAspectLock(store, lock, aspect))

SetCenterSnap(value) == Sync("setCenterSnap", setCenterSnap(store, value))

SetBackground(value) == Sync("setBackground", setBackground(store, value))

\* last also records the size reported before and whether a fit was pending
SetPreviewSize(size) ==
    /\ steps < MaxSteps
    /\ store' = setPreviewSize(store, size)
    /\ steps' = steps + 1
    /\ last' = [op |-> "setPreviewSize", id |-> ActiveId(store), call |-> 0,
                outcome |-> "done", from |-> store.previewSize,
                pending |-> store.needsInitialFit]
    /\ UNCHANGED <<inflight, nextId, nextCall, filterReq, exports, hook>>

Size(w, h) == [width |-> Num(w), height |-> Num(h)]

Partial(x, y, scale) == [x |-> x, y |-> y, scale |-> scale]

-----------------------------------------------------------------------------
(* SpecFilter: the filter actions interleaved with one action of every      *)
(* other kind that touches the image queue.                                 *)

FilterImageDims == {<<40, 20>>}
FilterPreviewSizes == {Size(300, 200)}
FilterPartials == {Partial(Num(10), Undefined, Undefined)}
FilterIntensities == {Rat(1, 2)}
FilterCrops == {[createDefaultCrop EXCEPT !.width = Rat(1, 2)]}

NextFilter ==
    \/ \E d \in FilterImageDims : LoadImageCall(d[1], d[2])
    \/ \E c \in inflight : LoadImageSettle(c)
    \/ \E d \in FilterImageDims : LoadImagesCall(<<d, d>>)
    \/ \E c \in inflight : LoadImagesSettle(c)
    \/ \E id \in 1..MaxImages : SetActiveImage(id)
    \/ \E id \in 1..MaxImages : RemoveImage(id)
    \/ \E f \in BUILTIN_FILTERS : SetFilterCall(f)
    \/ SetFilterNull
    \/ SetFilterUnknown
    \/ \E c \in inflight, o \in LoadOutcomes : SetFilterSettle(c, o)
    \/ LoadFilterFromFileCall
    \/ LoadFilterFromFileNoLoader
    \/ \E c \in inflight, o \in LoadOutcomes : LoadFilterFromFileSettle(c, o)
    \/ \E v \in FilterIntensities : SetFilterIntensity(v)
    \/ RemoveFilter
    \/ \E p \in FilterPartials : UpdateTransform(p)
    \/ \E c \in FilterCrops : SetCrop(c)
    \/ \E z \in FilterPreviewSizes : SetPreviewSize(z)
    \/ SetRatio("1:1")

SpecFilter == Init /\ [][NextFilter]_vars


-----------------------------------------------------------------------------
(* Claims about the filter actions (SpecFilter).                            *)

FilterSettled(l) == l.op \in {"setFilter", "loadFilterFromFile"} /\ l.call # 0

\* new is old with at most the filter of image id replaced
SameButFilterOf(old, new, id) ==
    /\ Len(new) = Len(old)
    /\ \A k \in 1..Len(old) :
        /\ new[k].image = old[k].image
        /\ new[k].transform = old[k].transform
        /\ new[k].crop = old[k].crop
        /\ new[k].isEdited = old[k].isEdited
        /\ old[k].image.id # id => new[k].filter = old[k].filter

\* C1: every store action is an atomic read-modify-write. A setFilter or
\* loadFilterFromFile that settles after other actions ran changes nothing but
\* the filter of its own image: the queue's membership and order and every
\* image's transform, crop and isEdited are those the store held just before
\* the settle, so no earlier write is lost.
C1_NoLostUpdate ==
    [][FilterSettled(last') => SameButFilterOf(store.images, store'.images, last'.id)]_vars

FilterCore(img) ==
    IF img.filter = Null THEN Null
    ELSE [filterId |-> img.filter.filterId, lutData |-> img.filter.lutData,
          filteredImageFull |-> img.filter.filteredImageFull]

FilterOps == {"setFilter", "setFilter.null", "loadFilterFromFile", "removeFilter"}

\* C7: the filterId, lutData and cached raster of an image change only in a
\* step of setFilter, loadFilterFromFile or removeFilter applied to that image
\* (setFilterIntensity and every transform, crop, ratio, preview-size and
\* selection action leave them as they are).
C7_FilterFrame ==
    [][\A k \in 1..Len(store.images) : \A j \in 1..Len(store'.images) :
          (store.images[k].image.id = store'.images[j].image.id
           /\ FilterCore(store.images[k]) # FilterCore(store'.images[j]))
          => (last'.op \in FilterOps /\ last'.id = store.images[k].image.id)]_vars

PendingFilterLoads(id) ==
    {c \in inflight : c.kind \in {"setFilter", "loadFilterFromFile"}
                      /\ c.target.id = id}

\* C8: a stale LUT load is discarded. Once every setFilter call for an image
\* has settled and the latest of them succeeded, the image's filter is the one
\* that latest call asked for, whatever order the loads finished in.
C8_StaleLoadDiscarded ==
    \A k \in 1..Len(store.images) :
        LET img == store.images[k]
            req == filterReq[img.image.id]
        IN  (req.status = "applied" /\ req.filterId \in BUILTIN_FILTERS
             /\ PendingFilterLoads(img.image.id) = {})
            => (img.filter # Null /\ img.filter.filterId = req.filterId)

\* SpecFilterFailure: the filter loads and their failures on a queue filled
\* by loadImage, with removal, intensity and transform changes in between.
NextFilterFailure ==
    \/ \E d \in FilterImageDims : LoadImageCall(d[1], d[2])
    \/ \E c \in inflight : LoadImageSettle(c)
    \/ \E id \in 1..MaxImages : SetActiveImage(id)
    \/ \E id \in 1..MaxImages : RemoveImage(id)
    \/ \E f \in BUILTIN_FILTERS : SetFilterCall(f)
    \/ SetFilterNull
    \/ SetFilterUnknown
    \/ \E c \in inflight, o \in LoadOutcomes : SetFilterSettle(c, o)
    \/ LoadFilterFromFileCall
    \/ LoadFilterFromFileNoLoader
    \/ \E c \in inflight, o \in LoadOutcomes : LoadFilterFromFileSettle(c, o)
    \/ \E v \in FilterIntensities : SetFilterIntensity(v)
    \/ \E p \in FilterPartials : UpdateTransform(p)

SpecFilterFailure == Init /\ [][NextFilterFailure]_vars

\* C9: a setFilter or loadFilterFromFile that fails rejects, makes no further
\* load attempt (the call is over: nothing of it stays in flight) and leaves
\* the whole store state, the image's previous filter included, as it was.
C9_FailedLoadLeavesStore ==
    [][(last'.op \in {"setFilter", "loadFilterFromFile"} /\ last'.outcome = "rejected")
        => (/\ store' = store
            /\ \A c \in inflight' : c.call # last'.call
            /\ inflight' \subseteq inflight)]_vars

\* a load failed while its image carried a filter
C9_Witness ==
    /\ last.op \in {"setFilter", "loadFilterFromFile"}
    /\ last.outcome = "rejected"
    /\ last.call # 0
    /\ \E k \in 1..Len(store.images) :
         store.images[k].image.id = last.id /\ store.images[k].filter # Null


-----------------------------------------------------------------------------
(* SpecCrop: the crop panel and the crop overlay driving the store's crop   *)
(* actions on a 2:1 image and on a 12:1 panorama.                           *)

MaxCropSteps == 6

CropImageDims == {<<40, 20>>, <<240, 20>>}
\* CROP_ASPECT_PRESETS values: null ('free'), 1 ('1:1') and 9/16 ('9:16')
CropPresetValues == {Null, One, Rat(9, 16)}
\* pointer deltas of one drag, in normalized image coordinates
CropDeltas == {<<Rat(-1, 2), Zero>>, <<Rat(-1, 10), Zero>>, <<Rat(1, 10), Rat(1, 10)>>}
CropLocks == {<<TRUE, One>>, <<FALSE, Undefined>>}

ImageAspect(image) == Rat(image.width, image.height)

\* the crop panel's preset buttons and the overlay exist only in crop mode
InCropMode == store.cropMode /\ getActiveImageState(store) # Null

\* CropPanel.handleAspectChange(presetId), preset.value = value
handleAspectChange(s, value) ==
    LET activeImage == getActiveImageState(s)
    IN  IF activeImage = Null THEN s
        ELSE IF value = Null
        THEN IF activeImage.crop = Null THEN s
             ELSE setCrop(s, [activeImage.crop EXCEPT !.aspectLock = FALSE,
                                                       !.lockedAspect = Undefined])
        ELSE setCrop(s, computeCropFromAspect(ImageAspect(activeImage.image), value))

\* CropPanel.handleResetCrop
handleResetCrop(s) ==
    IF getActiveImageState(s) = Null THEN s ELSE setCrop(s, createDefaultCrop)

\* CropOverlay.handlePointerMove with activeHandle = 'move'
handlePointerMoveCrop(s, dx, dy) ==
    setCrop(s, moveCrop(getActiveImageState(s).crop, dx, dy))

\* CropOverlay.handlePointerMove with a resize handle
handlePointerResizeCrop(s, handle, dx, dy) ==
    LET activeImage == getActiveImageState(s)
    IN  setCrop(s, resizeCropFromHandle(activeImage.crop, handle, dx, dy,
                                        ImageAspect(activeImage.image)))

HandleAspectChange(value) ==
    /\ InCropMode
    /\ steps < MaxCropSteps
    /\ Sync("handleAspectChange", handleAspectChange(store, value))

HandleResetCrop ==
    /\ InCropMode
    /\ steps < MaxCropSteps
    /\ Sync("handleResetCrop", handleResetCrop(store))

HandlePointerMoveCrop(dx, dy) ==
    /\ InCropMode
    /\ getActiveImageState(store).crop # Null
    /\ steps < MaxCropSteps
    /\ Sync("cropOverlay.move", handlePointerMoveCrop(store, dx, dy))

HandlePointerResizeCrop(handle, dx, dy) ==
    /\ InCropMode
    /\ getActiveImageState(store).crop # Null
    /\ steps < MaxCropSteps
    /\ Sync("cropOverlay.resize", handlePointerResizeCrop(store, handle, dx, dy))

NextCrop ==
    \/ \E d \in CropImageDims : LoadImageCall(d[1], d[2])
    \/ \E c \in inflight : LoadImageSettle(c)
    \/ \E id \in 1..MaxImages : SetActiveImage(id)
    \/ steps < MaxCropSteps /\ ToggleCropMode
    \/ steps < MaxCropSteps /\ ResetCrop
    \/ \E l \in CropLocks : steps < MaxCropSteps /\ SetCropAspectLock(l[1], l[2])
    \/ \E v \in CropPresetValues : HandleAspectChange(v)
    \/ HandleResetCrop
    \/ \E d \in CropDeltas : HandlePointerMoveCrop(d[1], d[2])
    \/ \E h \in Handles, d \in CropDeltas : HandlePointerResizeCrop(h, d[1], d[2])

SpecCrop == Init /\ [][NextCrop]_vars

CropInBounds(crop) ==
    /\ RLe(Zero, crop.x)
    /\ RLe(Zero, crop.y)
    /\ RLe(RAdd(crop.x, crop.width), One)
    /\ RLe(RAdd(crop.y, crop.height), One)
    /\ RLe(MIN_CROP_SIZE, crop.width)
    /\ RLe(MIN_CROP_SIZE, crop.height)

\* C2: after any sequence of crop operations on an image of any aspect ratio,
\* every stored non-null crop lies inside the image (x >= 0, y >= 0,
\* x + width <= 1, y + height <= 1) and is at least 0.05 wide and high.
C2_CropInvariant ==
    \A k \in 1..Len(store.images) :
        store.images[k].crop # Null => CropInBounds(store.images[k].crop)

\* C10: resizeCropFromHandle on an aspect-locked crop, for every handle and
\* every drag delta, returns a crop whose normalized width/height is exactly
\* lockedAspect / imageAspect.
C10_LockedResizeKeepsAspect ==
    (last.op = "cropOverlay.resize" /\ getActiveImageState(store) # Null)
    => LET activeImage == getActiveImageState(store)
           crop == activeImage.crop
       IN  IsLocked(crop)
           => RDiv(crop.width, crop.height)
              = RDiv(crop.lockedAspect, ImageAspect(activeImage.image))


-----------------------------------------------------------------------------
(* SpecTransform: image loading, selection, ratio and preview-size changes  *)
(* and the transform actions.                                               *)

MaxTransformSteps == 6

TransformImageDims == {<<40, 20>>}
TransformPreviewSizes == {Size(300, 200), Size(600, 400), Size(300, 300)}
TransformPartials == {Partial(Num(10), Num(-5), Undefined)}
TransformPercents == {-100, 50}
TransformDeltas == {[x |-> One, y |-> Zero]}
TransformFactors == {Rat(11, 10)}
TransformScales == {Num(10)}
TransformRatioIds == {"1:1"}
TransformCustomRatios == {[width |-> 16, height |-> 9]}

\* getFitScaleFromState(state); Null when there is no image or no preview size
getFitScaleFromState(s) ==
    LET activeImage == getActiveImageState(s)
    IN  IF activeImage = Null \/ s.previewSize = Null THEN Null
        ELSE IF RLe(s.previewSize.width, Zero) \/ RLe(s.previewSize.height, Zero)
        THEN Null
        ELSE computeFitScale(activeImage.image, s.previewSize.width,
                             s.previewSize.height, activeImage.crop)

\* TransformPanel.handleScalePercentChange(value)
handleScalePercentChange(s, value) ==
    LET fitScale == getFitScaleFromState(s)
    IN  IF fitScale = Null \/ fitScale = Zero THEN s
        ELSE updateTransform(s,
                Partial(Undefined, Undefined,
                        RMax(Rat(1, 100),
                             RMul(fitScale, RAdd(One, Rat(value, 100))))))

HandleScalePercentChange(value) ==
    Sync("handleScalePercentChange", handleScalePercentChange(store, value))

TransformStep == steps < MaxTransformSteps

NextTransform ==
    \/ \E d \in TransformImageDims : TransformStep /\ LoadImageCall(d[1], d[2])
    \/ \E c \in inflight : TransformStep /\ LoadImageSettle(c)
    \/ \E d \in TransformImageDims : TransformStep /\ LoadImagesCall(<<d, d>>)
    \/ \E c \in inflight : TransformStep /\ LoadImagesSettle(c)
    \/ \E id \in 1..MaxImages : TransformStep /\ SetActiveImage(id)
    \/ \E z \in TransformPreviewSizes : TransformStep /\ SetPreviewSize(z)
    \/ \E r \in TransformRatioIds : TransformStep /\ SetRatio(r)
    \/ \E c \in TransformCustomRatios : TransformStep /\ SetCustomRatio(c)
    \/ TransformStep /\ ResetTransform
    \/ TransformStep /\ FitImageToCanvas
    \/ \E p \in TransformPartials : TransformStep /\ UpdateTransform(p)
    \/ \E v \in TransformPercents : TransformStep /\ HandleScalePercentChange(v)
    \/ \E d \in TransformDeltas : TransformStep /\ NudgePosition(d)
    \/ \E f \in TransformFactors : TransformStep /\ AdjustScale(f)
    \/ \E v \in TransformScales : TransformStep /\ SetScale(v)

SpecTransform == Init /\ [][NextTransform]_vars

\* C3: after any sequence of store actions every queued image's
\* transform.scale lies in [SCALE.MIN, SCALE.MAX] = [0.05, 8].
C3_ScaleInRange ==
    \A k \in 1..Len(store.images) :
        /\ RLe(SCALE_MIN, store.images[k].transform.scale)
        /\ RLe(store.images[k].transform.scale, SCALE_MAX)

RatioPreserving(old, new) ==
    RLe(RAbs(RSub(Aspect(new), Aspect(old))), ASPECT_RATIO_THRESHOLD)

\* C6 as stated: in every reachable store state a setPreviewSize that follows
\* an earlier reported size and preserves width/height within 0.01 leaves
\* every image's transform and isEdited flag (the whole queue) unchanged.
C6_RatioPreservingResize ==
    [][(last'.op = "setPreviewSize" /\ store.previewSize # Null
        /\ RatioPreserving(store.previewSize, store'.previewSize))
       => store'.images = store.images]_vars

\* C6 amended: a setPreviewSize that follows an earlier reported size re-fits
\* only if a fit is pending (_needsInitialFit) or width/height moved by more
\* than 0.01; a ratio-preserving resize with no fit pending leaves every
\* image's transform and isEdited flag unchanged.
C6_RatioPreservingResizeNoPendingFit ==
    [][(last'.op = "setPreviewSize" /\ store.previewSize # Null
        /\ ~store.needsInitialFit
        /\ RatioPreserving(store.previewSize, store'.previewSize))
       => store'.images = store.images]_vars

\* a positioned image went through a ratio-preserving change of preview size
C6_Witness ==
    /\ last.op = "setPreviewSize"
    /\ last.from # Null
    /\ ~last.pending
    /\ last.from # store.previewSize
    /\ RatioPreserving(last.from, store.previewSize)
    /\ getActiveImageState(store) # Null
    /\ getActiveImageState(store).isEdited


-----------------------------------------------------------------------------
(* Rendering and export: lib/canvas/render.ts, components/image/ImageLayer, *)
(* components/canvas/Canvas, lib/export/exportCanvas.ts, useExportImage.    *)

CANVAS_MIN_WIDTH == Num(240)
CANVAS_MAX_WIDTH == Num(1400)

\* What renderScene draws: the filled surface, the rectangle the image is
\* drawn into, the clip rectangle and the rasters drawn (with their alpha).
renderScene(width, height, background, transform, crop, filter, image) ==
    LET originX == RAdd(RHalf(width), transform.x)
        originY == RAdd(RHalf(height), transform.y)
        w == RMul(Num(image.width), transform.scale)
        h == RMul(Num(image.height), transform.scale)
    IN  [width |-> width,
         height |-> height,
         background |-> background,
         clip |-> IF crop # Null
                  THEN cropToCanvasCoords(crop, image, transform, width, height)
                  ELSE Null,
         rect |-> [x |-> RSub(originX, RHalf(w)), y |-> RSub(originY, RHalf(h)),
                   width |-> w, height |-> h],
         layers |-> IF filter # Null /\ RLt(Zero, filter.intensity)
                    THEN IF RLe(One, filter.intensity)
                         THEN <<[raster |-> filter.filteredImageFull, alpha |-> One]>>
                         ELSE <<[raster |-> [original |-> image.id], alpha |-> One],
                                [raster |-> filter.filteredImageFull,
                                 alpha |-> filter.intensity]>>
                    ELSE <<[raster |-> [original |-> image.id], alpha |-> One]>>]

\* ImageLayer: the preview of one image state on a canvas of the given size
\* (a <canvas> drawn by renderScene when a filter is present, else an <img>
\* laid out with the same rectangle).
ImageLayer(img, canvasWidth, canvasHeight, background, disableCropClip) ==
    renderScene(canvasWidth, canvasHeight, background, img.transform,
                IF disableCropClip THEN Null ELSE img.crop, img.filter, img.image)

\* Canvas: the desktop size of the canvas for a window and an aspect ratio
canvasSize(window, aspectRatio) ==
    LET availableWidth == RMul(window.width, Rat(4, 5))
        availableHeight == RMul(window.height, Rat(4, 5))
        w0 == RMin(availableWidth, CANVAS_MAX_WIDTH)
        h0 == RDiv(w0, aspectRatio)
        h1 == IF RLt(availableHeight, h0) THEN availableHeight ELSE h0
        w1 == IF RLt(availableHeight, h0) THEN RMul(availableHeight, aspectRatio) ELSE w0
    IN  IF RLt(w1, CANVAS_MIN_WIDTH)
        THEN [width |-> CANVAS_MIN_WIDTH, height |-> RDiv(CANVAS_MIN_WIDTH, aspectRatio)]
        ELSE [width |-> w1, height |-> h1]

createImageSnapshot(image, transform, crop, filter, canvasWidth, canvasHeight, background, ratioId, customRatio) ==
    LET effectiveDims == getEffectiveDimensions(image, crop)
        ratio == findRatioValue(ratioId, customRatio, image, crop)
    IN  [image |-> image, transform |-> transform, crop |-> crop, filter |-> filter,
         background |-> background,
         dimensions |-> [baseWidth |-> effectiveDims.width,
                         baseHeight |-> RDiv(effectiveDims.width, ratio),
                         ratio |-> ratio],
         ratioId |-> ratioId,
         previewSize |-> [width |-> canvasWidth, height |-> canvasHeight]]

\* store.snapshot() with an active image and a preview size
snapshot(s) ==
    LET activeImage == getActiveImageState(s)
    IN  createImageSnapshot(activeImage.image, activeImage.transform, activeImage.crop,
                            activeImage.filter, s.previewSize.width, s.previewSize.height,
                            s.background, s.ratioId, s.customRatio)

\* exportComposite(snapshot, options) up to its renderScene call, which names
\* ctx, width, height, background, transform, crop, borders and image: the
\* filter parameter of renderScene is left undefined
exportComposite(snap) ==
    LET targetWidth == snap.dimensions.baseWidth
        targetHeight == snap.dimensions.baseHeight
        scaleFactor == RDiv(targetWidth, snap.previewSize.width)
    IN  [scaleFactor |-> scaleFactor,
         previewSize |-> snap.previewSize,
         scene |-> renderScene(targetWidth, targetHeight, snap.background,
                      [x |-> RMul(snap.transform.x, scaleFactor),
                       y |-> RMul(snap.transform.y, scaleFactor),
                       scale |-> RMul(snap.transform.scale, scaleFactor)],
                      snap.crop, Null, snap.image)]

\* exportSingleImage(image, transform, crop, settings); settings is the store
\* state the hook read (background, ratioId, customRatio, previewSize)
exportSingleImage(img, settings) ==
    exportComposite(
        createImageSnapshot(img.image, img.transform, img.crop, Null,
                            settings.previewSize.width, settings.previewSize.height,
                            settings.background, settings.ratioId, settings.customRatio))


-----------------------------------------------------------------------------
(* SpecExport: images of different shapes, the canvas reporting its size    *)
(* after every render, filters, and the two export commands.                *)

MaxExportSteps == 7

ExportImageDims == {<<40, 20>>, <<20, 20>>}
ExportWindows == {Size(1000, 800)}
ExportRatioIds == {"original", "1:1"}
ExportPartials == {Partial(Num(10), Num(-5), Undefined)}
ExportCrops == {[createDefaultCrop EXCEPT !.width = Rat(1, 2)]}
ExportIntensities == {Rat(1, 2)}
ExportOutcomes == {"ok", "fetchFailed"}

ExportStep == steps < MaxExportSteps

\* CanvasStage/Canvas: after a render the canvas reports its size, computed
\* from the window and the resolved ratio of the active image
CanvasSizeEffect(window) ==
    SetPreviewSize(canvasSize(window, getRatioValue(store)))

\* the canvas has reported the size of the current ratio: no render pending
PreviewSettled(s) ==
    /\ s.previewSize # Null
    /\ \E window \in ExportWindows : s.previewSize = canvasSize(window, getRatioValue(s))

\* one exported image: what the export rendered and what the preview of the
\* same image state shows on a canvas of the preview size the export used
ExportRecord(kind, img, s, composite) ==
    [kind |-> kind,
     id |-> img.image.id,
     scaleFactor |-> composite.scaleFactor,
     previewSize |-> composite.previewSize,
     scene |-> composite.scene,
     preview |-> ImageLayer(img, composite.previewSize.width,
                            composite.previewSize.height, s.background, s.cropMode)]

\* useExportImage.exportImage
ExportImage ==
    /\ ExportStep
    /\ PreviewSettled(store)
    /\ getActiveImageState(store) # Null
    /\ exports' = {ExportRecord("single", getActiveImageState(store), store,
                                exportComposite(snapshot(store)))}
    /\ steps' = steps + 1
    /\ last' = [op |-> "exportImage", id |-> ActiveId(store), call |-> 0, outcome |-> "done"]
    /\ UNCHANGED <<store, inflight, nextId, nextCall, filterReq, hook>>

\* useExportImage.exportAllImages
ExportAllImages ==
    /\ ExportStep
    /\ PreviewSettled(store)
    /\ Len(store.images) > 0
    /\ exports' = {ExportRecord("batch", store.images[k], store,
                                exportSingleImage(store.images[k], store))
                   : k \in 1..Len(store.images)}
    /\ steps' = steps + 1
    /\ last' = [op |-> "exportAllImages", id |-> ActiveId(store), call |-> 0, outcome |-> "done"]
    /\ UNCHANGED <<store, inflight, nextId, nextCall, filterReq, hook>>

NextExport ==
    \/ \E d \in ExportImageDims : ExportStep /\ LoadImageCall(d[1], d[2])
    \/ \E c \in inflight : ExportStep /\ LoadImageSettle(c)
    \/ \E d1, d2 \in ExportImageDims : ExportStep /\ LoadImagesCall(<<d1, d2>>)
    \/ \E c \in inflight : ExportStep /\ LoadImagesSettle(c)
    \/ \E id \in 1..MaxImages : ExportStep /\ SetActiveImage(id)
    \/ \E r \in ExportRatioIds : ExportStep /\ SetRatio(r)
    \/ \E w \in ExportWindows : ExportStep /\ CanvasSizeEffect(w)
    \/ \E p \in ExportPartials : ExportStep /\ UpdateTransform(p)
    \/ \E c \in ExportCrops : ExportStep /\ SetCrop(c)
    \/ \E f \in {"xpro3-eterna"} : ExportStep /\ SetFilterCall(f)
    \/ \E c \in inflight, o \in ExportOutcomes : ExportStep /\ SetFilterSettle(c, o)
    \/ \E v \in ExportIntensities : ExportStep /\ SetFilterIntensity(v)
    \/ ExportImage
    \/ ExportAllImages

SpecExport == Init /\ [][NextExport]_vars

ScaledRect(r, f) ==
    IF r = Null THEN Null
    ELSE [x |-> RMul(r.x, f), y |-> RMul(r.y, f),
          width |-> RMul(r.width, f), height |-> RMul(r.height, f)]

\* C4: export parity. For every exported image (single and batch) the preview
\* size used for scaleFactor has the aspect ratio of the export surface, and
\* the export surface, image rectangle and crop clip rectangle are those of
\* the preview multiplied by scaleFactor on both axes.
C4_ExportParity ==
    \A e \in exports :
        /\ Aspect(e.previewSize) = RDiv(e.scene.width, e.scene.height)
        /\ e.scene.width = RMul(e.preview.width, e.scaleFactor)
        /\ e.scene.height = RMul(e.preview.height, e.scaleFactor)
        /\ e.scene.rect = ScaledRect(e.preview.rect, e.scaleFactor)
        /\ e.scene.clip = ScaledRect(e.preview.clip, e.scaleFactor)

\* C5: the export render gets the scene inputs of the preview render of the
\* same image state: the same background, the same crop and the same filter,
\* so the rasters it draws (original, graded, blend alpha) are the preview's.
C5_ExportSceneInputs ==
    \A e \in exports :
        /\ e.scene.background = e.preview.background
        /\ (e.scene.clip = Null) = (e.preview.clip = Null)
        /\ e.scene.layers = e.preview.layers

-----------------------------------------------------------------------------
(* Transform claims on SpecTransform: reset, import and selection.          *)

\* C11: resetTransform sets the active image's transform to exactly
\* {x: 0, y: 0, scale: fitScale} with fitScale = min(surfaceW / effW,
\* surfaceH / effH).
C11_ResetIsExactFit ==
    (/\ last.op = "resetTransform"
     /\ getActiveImageState(store) # Null
     /\ store.previewSize # Null)
    => LET activeImage == getActiveImageState(store)
       IN  activeImage.transform =
               [x |-> Zero, y |-> Zero,
                scale |-> computeFitScale(activeImage.image,
                              store.previewSize.width, store.previewSize.height,
                              activeImage.crop)]

\* the image is the active one and sits at the import fit
\* {0, 0, max(0.95 * fitScale, 0.05)}, not edited
FittedOnImport(s, id) ==
    LET activeImage == getActiveImageState(s)
    IN  /\ activeImage # Null
        /\ activeImage.image.id = id
        /\ ~activeImage.isEdited
        /\ activeImage.transform =
               [x |-> Zero, y |-> Zero,
                scale |-> RMax(RMul(Rat(95, 100),
                                    computeFitScale(activeImage.image,
                                        s.previewSize.width, s.previewSize.height,
                                        activeImage.crop)),
                               Rat(5, 100))]

\* C12: an image imported by loadImage becomes the active image; if a preview
\* size was already reported it is at the import fit as soon as loadImage
\* completes, otherwise the first setPreviewSize puts the active image at the
\* import fit. It does not stay at the temporary transform {0, 0, 1}.
C12_ImportFit ==
    [][/\ (last'.op = "loadImage"
           => /\ store'.activeImageId = last'.id
              /\ (store.previewSize # Null => FittedOnImport(store', last'.id)))
       /\ (last'.op = "setPreviewSize" /\ store.previewSize = Null
             /\ Len(store.images) > 0
           => FittedOnImport(store', store.activeImageId))]_vars

\* a second image was imported while the preview size was known
C12_Witness ==
    /\ last.op = "loadImage"
    /\ store.previewSize # Null
    /\ Len(store.images) = 2
    /\ FittedOnImport(store, last.id)
    /\ getActiveImageState(store).transform.scale # One

\* the first preview size arrived after an import
C12_WitnessFirstSize ==
    /\ last.op = "setPreviewSize"
    /\ last.from = Null
    /\ Len(store.images) > 0
    /\ FittedOnImport(store, store.activeImageId)

ImageOf(s, id) == s.images[FindIndex(s.images, id, 1)]

\* the selected image of s2 was put at the fit for the current preview size
Refitted(s2) ==
    LET target == ImageOf(s2, s2.activeImageId)
    IN  /\ ~target.isEdited
        /\ target.transform =
               computeInitialTransform(target.image, s2.previewSize.width,
                                       s2.previewSize.height, target.crop)

\* C13 as stated: with a preview size known, setActiveImage(id) re-fits the
\* selected image to the current preview size if and only if its isEdited
\* flag is false; an edited image keeps its transform.
C13_SelectRefitsUnedited ==
    [][(last'.op = "setActiveImage" /\ store.previewSize # Null)
       => LET id == store'.activeImageId
          IN  IF ~ImageOf(store, id).isEdited
              THEN Refitted(store')
              ELSE ImageOf(store', id) = ImageOf(store, id)]_vars

\* C13 amended: with a preview size known, setActiveImage(id) re-fits the
\* selected image if and only if its isEdited flag is false and its scale is
\* still the temporary 1; any other selected image keeps its transform.
C13_SelectRefitsUnfitted ==
    [][(last'.op = "setActiveImage" /\ store.previewSize # Null)
       => LET id == store'.activeImageId
          IN  IF ~ImageOf(store, id).isEdited
                 /\ ImageOf(store, id).transform.scale = One
              THEN Refitted(store')
              ELSE ImageOf(store', id) = ImageOf(store, id)]_vars

\* an unedited image fitted for another preview size has just been selected
C13_Witness ==
    /\ last.op = "setActiveImage"
    /\ store.previewSize # Null
    /\ last.id # store.activeImageId
    /\ ~getActiveImageState(store).isEdited
    /\ getActiveImageState(store).transform.scale # One
    /\ ~Refitted(store)

-----------------------------------------------------------------------------
(* Crop claims on SpecCrop: the crop-editing life cycle.                    *)

\* C14: crop editing of an image follows None -> Active -> (None | Persisted).
\* Entering crop mode on an image without a crop creates the full-image crop
\* {x 0, y 0, width 1, height 1, unlocked}; Apply (toggleCropMode while in
\* crop mode) leaves crop mode and keeps the current crop on the image;
\* Cancel (resetCrop) leaves crop mode and leaves the image with no crop.
C14_CropLifeCycle ==
    [][LET activeImage == getActiveImageState(store)
           after == getActiveImageState(store')
       IN  activeImage # Null
           => /\ (last'.op = "toggleCropMode" /\ ~store.cropMode
                    /\ activeImage.crop = Null
                  => /\ store'.cropMode
                     /\ after.crop = [x |-> Zero, y |-> Zero, width |-> One,
                                      height |-> One, aspectLock |-> FALSE,
                                      lockedAspect |-> Undefined])
              /\ (last'.op = "toggleCropMode" /\ store.cropMode
                  => /\ ~store'.cropMode
                     /\ store'.images = store.images)
              /\ (last'.op = "resetCrop"
                  => /\ ~store'.cropMode
                     /\ after.crop = Null)]_vars

\* a crop edited in crop mode has been applied and persists on the image
C14_Witness ==
    /\ last.op = "toggleCropMode"
    /\ ~store.cropMode
    /\ getActiveImageState(store) # Null
    /\ getActiveImageState(store).crop # Null
    /\ getActiveImageState(store).crop.width # One

-----------------------------------------------------------------------------
(* SpecGuards: the per-image actions called while no image is active (the   *)
(* queue never filled, emptied again, or emptied during a filter load).     *)

MaxGuardSteps == 6

GuardImageDims == {<<40, 20>>}
GuardPreviewSizes == {Size(300, 200)}
GuardFilterIds == {"xpro3-eterna", NullFilterId, "no-such-filter"}
GuardCrops == {Null, createDefaultCrop}
GuardCropPartials == {[x |-> Rat(1, 10)]}

NoActiveImage == getActiveImageState(store) = Null

UpdateCrop(partial) == Sync("updateCrop", updateCrop(store, partial))

\* setFilter(filterId) called while no image is active
SetFilterNoImage(filterId) ==
    /\ NoActiveImage
    /\ steps < MaxSteps
    /\ store' = IF setFilterEntry(store, filterId) = "removed"
                THEN removeFilter(store) ELSE store
    /\ steps' = steps + 1
    /\ last' = [op |-> "setFilter", id |-> NoId, call |-> 0,
                outcome |-> IF setFilterEntry(store, filterId) = "threw"
                            THEN "rejected" ELSE "resolved"]
    /\ UNCHANGED <<inflight, nextId, nextCall, filterReq, exports, hook>>

\* loadFilterFromFile(file) called while no image is active
LoadFilterFromFileNoImage(hasLoader) ==
    /\ NoActiveImage
    /\ steps < MaxSteps
    /\ steps' = steps + 1
    /\ last' = [op |-> "loadFilterFromFile", id |-> NoId, call |-> 0,
                outcome |-> IF loadFilterFromFileEntry(store, hasLoader) = "threw"
                            THEN "rejected" ELSE "resolved"]
    /\ UNCHANGED <<store, inflight, nextId, nextCall, filterReq, exports, hook>>

\* removeFilter() called while no image is active
RemoveFilterNoImage ==
    /\ NoActiveImage
    /\ Sync("removeFilter", removeFilter(store))

GuardStep == steps < MaxGuardSteps

NextGuards ==
    \/ \E d \in GuardImageDims : GuardStep /\ LoadImageCall(d[1], d[2])
    \/ \E c \in inflight : GuardStep /\ LoadImageSettle(c)
    \/ \E id \in 1..MaxImages : GuardStep /\ RemoveImage(id)
    \/ GuardStep /\ ClearAllImages
    \/ \E z \in GuardPreviewSizes : GuardStep /\ SetPreviewSize(z)
    \/ \E f \in BUILTIN_FILTERS : GuardStep /\ SetFilterCall(f)
    \/ \E c \in inflight : GuardStep /\ SetFilterSettle(c, "ok")
    \/ GuardStep /\ ToggleCropMode
    \/ \E p \in TransformPartials : GuardStep /\ NoActiveImage /\ UpdateTransform(p)
    \/ \E d \in TransformDeltas : GuardStep /\ NoActiveImage /\ NudgePosition(d)
    \/ \E f \in TransformFactors : GuardStep /\ NoActiveImage /\ AdjustScale(f)
    \/ \E v \in TransformScales : GuardStep /\ NoActiveImage /\ SetScale(v)
    \/ GuardStep /\ NoActiveImage /\ ResetTransform
    \/ GuardStep /\ NoActiveImage /\ FitImageToCanvas
    \/ \E c \in GuardCrops : GuardStep /\ NoActiveImage /\ SetCrop(c)
    \/ \E p \in GuardCropPartials : GuardStep /\ NoActiveImage /\ UpdateCrop(p)
    \/ GuardStep /\ NoActiveImage /\ ResetCrop
    \/ \E l \in CropLocks : GuardStep /\ NoActiveImage /\ SetCropAspectLock(l[1], l[2])
    \/ \E f \in GuardFilterIds : GuardStep /\ SetFilterNoImage(f)
    \/ \E v \in {Rat(1, 2)} : GuardStep /\ NoActiveImage /\ SetFilterIntensity(v)
    \/ \E b \in BOOLEAN : GuardStep /\ LoadFilterFromFileNoImage(b)
    \/ GuardStep /\ RemoveFilterNoImage

SpecGuards == Init /\ [][NextGuards]_vars

GuardedOps ==
    {"updateTransform", "nudgePosition", "adjustScale", "setScale",
     "resetTransform", "fitImageToCanvas", "setCrop", "updateCrop", "resetCrop",
     "toggleCropMode", "setCropAspectLock", "setFilter", "setFilterIntensity",
     "loadFilterFromFile", "removeFilter"}

\* a call of one of the per-image actions made while no image is active
GuardedCall == NoActiveImage /\ last'.op \in GuardedOps /\ last'.call = 0

-----------------------------------------------------------------------------
(* SpecRatio: findRatioValue applied to every combination of ratio id,      *)
(* custom ratio, image and crop drawn from the sets below.                  *)

RatioArgIds == RatioIds \cup {"original", "custom", "no-such-ratio"}
RatioArgCustoms ==
    {[width |-> 4, height |-> 5], [width |-> 0, height |-> 5],
     [width |-> 5, height |-> 0], [width |-> -1, height |-> 5]}
RatioArgImages == {Null, [id |-> 1, width |-> 40, height |-> 20]}
RatioArgCrops ==
    {Null, createDefaultCrop,
     [createDefaultCrop EXCEPT !.width = Rat(1, 2)],
     [createDefaultCrop EXCEPT !.width = Zero],
     [createDefaultCrop EXCEPT !.height = Zero],
     [createDefaultCrop EXCEPT !.width = Zero, !.height = Zero]}

\* one call findRatioValue(id, {custom, image, crop}) on a fresh page
FindRatioValue(id, custom, image, crop) ==
    /\ last' = [op |-> "findRatioValue", id |-> id, custom |-> custom,
                image |-> image, crop |-> crop,
                result |-> findRatioValue(id, custom, image, crop)]
    /\ steps = 0
    /\ steps' = steps + 1
    /\ UNCHANGED <<store, inflight, nextId, nextCall, filterReq, exports, hook>>

NextRatio ==
    /\ steps = 0
    /\ \E id \in RatioArgIds, custom \in RatioArgCustoms,
          image \in RatioArgImages, crop \in RatioArgCrops :
            FindRatioValue(id, custom, image, crop)

SpecRatio == Init /\ [][NextRatio]_vars

\* a finite number (neither an infinity nor NaN) greater than 0
FinitePositive(r) == r[2] # 0 /\ r[1] > 0

\* C16: findRatioValue returns a finite, strictly positive number for every
\* input: 1 for 'custom' with a non-positive width or height, 1 for
\* 'original' with no image, and 1 for 'original' with a zero-area crop.
C16_RatioAlwaysPositive ==
    last.op = "findRatioValue"
    => /\ FinitePositive(last.result)
       /\ (last.id = "custom"
             /\ (last.custom.width <= 0 \/ last.custom.height <= 0)
           => last.result = One)
       /\ (last.id = "original" /\ last.image = Null => last.result = One)
       /\ (last.id = "original" /\ last.image # Null /\ last.crop # Null
             /\ (last.crop.width = Zero \/ last.crop.height = Zero)
           => last.result = One)

-----------------------------------------------------------------------------
(* SpecClamp: clampCropToBounds applied to crops of every size class (below *)
(* the minimum, inside, above 1) at positions inside and outside the image. *)

ClampSizes == {Rat(1, 40), Rat(1, 20), Rat(1, 2), One, Rat(3, 2), Num(30)}
ClampXs == {Rat(-1, 10), Zero, Rat(1, 2), Rat(19, 20)}
ClampYs == {Zero, Rat(3, 4)}
ClampLocks == {<<FALSE, Undefined>>, <<TRUE, One>>, <<TRUE, Undefined>>}

ClampCrops ==
    {[x |-> x, y |-> y, width |-> w, height |-> h,
      aspectLock |-> l[1], lockedAspect |-> l[2]] :
        x \in ClampXs, y \in ClampYs, w \in ClampSizes, h \in ClampSizes,
        l \in ClampLocks}

\* one call clampCropToBounds(crop) on a fresh page
ClampCropToBounds(crop) ==
    /\ last' = [op |-> "clampCropToBounds", crop |-> crop,
                result |-> clampCropToBounds(crop)]
    /\ steps = 0
    /\ steps' = steps + 1
    /\ UNCHANGED <<store, inflight, nextId, nextCall, filterReq, exports, hook>>

NextClamp == steps = 0 /\ \E crop \in ClampCrops : ClampCropToBounds(crop)

SpecClamp == Init /\ [][NextClamp]_vars

-----------------------------------------------------------------------------
(* SpecFit: computeFitScale applied to images, crops and surfaces of        *)
(* differing aspect ratios, some of them equal.                             *)

FitImages ==
    {[id |-> 1, width |-> d[1], height |-> d[2]] :
        d \in {<<40, 20>>, <<20, 20>>, <<20, 30>>, <<240, 20>>, <<4000, 3000>>}}
FitCrops ==
    {Null, createDefaultCrop,
     [createDefaultCrop EXCEPT !.x = Rat(1, 4), !.width = Rat(1, 2)],
     [createDefaultCrop EXCEPT !.y = Rat(1, 4), !.height = Rat(1, 2)]}
FitSurfaces ==
    {Size(300, 200), Size(200, 200), Size(300, 150), Size(100, 300),
     Size(1000, 1000), Size(0, 200)}

\* one call computeFitScale(image, canvasWidth, canvasHeight, crop) on a
\* fresh page
ComputeFitScale(image, surface, crop) ==
    /\ last' = [op |-> "computeFitScale", image |-> image, surface |-> surface,
                crop |-> crop,
                result |-> computeFitScale(image, surface.width, surface.height,
                                           crop)]
    /\ steps = 0
    /\ steps' = steps + 1
    /\ UNCHANGED <<store, inflight, nextId, nextCall, filterReq, exports, hook>>

NextFit ==
    /\ steps = 0
    /\ \E image \in FitImages, surface \in FitSurfaces, crop \in FitCrops :
            ComputeFitScale(image, surface, crop)

SpecFit == Init /\ [][NextFit]_vars

\* the call had positive effective dimensions and a positive surface
FitPositive ==
    /\ last.op = "computeFitScale"
    /\ RLt(Zero, last.surface.width)
    /\ RLt(Zero, last.surface.height)
    /\ RLt(Zero, getEffectiveDimensions(last.image, last.crop).width)
    /\ RLt(Zero, getEffectiveDimensions(last.image, last.crop).height)

DrawnWidth == RMul(getEffectiveDimensions(last.image, last.crop).width, last.result)
DrawnHeight == RMul(getEffectiveDimensions(last.image, last.crop).height, last.result)

\* C18 as stated: drawn at computeFitScale the effective region exceeds the
\* surface on neither axis and exactly one axis touches the surface bound.
C18_FitTouchesOneAxis ==
    FitPositive
    => /\ RLe(DrawnWidth, last.surface.width)
       /\ RLe(DrawnHeight, last.surface.height)
       /\ (DrawnWidth = last.surface.width) # (DrawnHeight = last.surface.height)

\* C18 amended: drawn at computeFitScale the effective region exceeds the
\* surface on neither axis and at least one axis touches the surface bound
\* (both when the region and the surface have the same aspect ratio).
C18_FitTouchesAnAxis ==
    FitPositive
    => /\ RLe(DrawnWidth, last.surface.width)
       /\ RLe(DrawnHeight, last.surface.height)
       /\ (DrawnWidth = last.surface.width \/ DrawnHeight = last.surface.height)
       /\ ((DrawnWidth = last.surface.width /\ DrawnHeight = last.surface.height)
           <=> RDiv(DrawnWidth, DrawnHeight) = Aspect(last.surface))

\* a cropped region of the surface's aspect ratio was fitted: both axes touch
C18_Witness ==
    /\ FitPositive
    /\ last.crop # Null
    /\ last.crop.width # One
    /\ DrawnWidth = last.surface.width
    /\ DrawnHeight = last.surface.height

-----------------------------------------------------------------------------
(* SpecCropAspect: computeCropFromAspect applied to image aspects and       *)
(* target aspects below, equal to and above one another.                    *)

CropAspects ==
    {One, Rat(3, 2), Rat(2, 3), Rat(5, 4), Rat(4, 5), Rat(16, 9), Rat(9, 16),
     Num(2), Rat(4, 3), Num(12), Rat(1, 3)}

\* one call computeCropFromAspect(imageAspect, targetAspect) on a fresh page
ComputeCropFromAspect(imageAspect, targetAspect) ==
    /\ last' = [op |-> "computeCropFromAspect", imageAspect |-> imageAspect,
                targetAspect |-> targetAspect,
                result |-> computeCropFromAspect(imageAspect, targetAspect)]
    /\ steps = 0
    /\ steps' = steps + 1
    /\ UNCHANGED <<store, inflight, nextId, nextCall, filterReq, exports, hook>>

NextCropAspect ==
    /\ steps = 0
    /\ \E imageAspect \in CropAspects, targetAspect \in CropAspects :
            ComputeCropFromAspect(imageAspect, targetAspect)

SpecCropAspect == Init /\ [][NextCropAspect]_vars

\* C19: for positive imageAspect and target, computeCropFromAspect returns a
\* crop with width / height * imageAspect = target; width = 1 and height =
\* imageAspect / target when target > imageAspect, height = 1 and width =
\* target / imageAspect otherwise; centered on both axes.
C19_CropFromAspect ==
    last.op = "computeCropFromAspect"
    => LET crop == last.result
           r == last.imageAspect
           t == last.targetAspect
       IN  /\ RMul(RDiv(crop.width, crop.height), r) = t
           /\ IF RLt(r, t)
              THEN crop.width = One /\ crop.height = RDiv(r, t)
              ELSE crop.height = One /\ crop.width = RDiv(t, r)
           /\ crop.x = RDiv(RSub(One, crop.width), Num(2))
           /\ crop.y = RDiv(RSub(One, crop.height), Num(2))

\* a target narrower than the image produced a pillar crop off the left edge
C19_Witness ==
    /\ last.op = "computeCropFromAspect"
    /\ RLt(last.targetAspect, last.imageAspect)
    /\ RLt(last.result.width, One)
    /\ RLt(Zero, last.result.x)
    /\ last.result.height = One

-----------------------------------------------------------------------------
(* lib/filters/formats/cube.ts and base.ts: CubeLoader.load. A file is the  *)
(* sequence of its lines, each line reduced to what the parser makes of it: *)
(*   size        LUT_3D_SIZE <n>, arg = parseInt(n)                         *)
(*   sizeNaN     LUT_3D_SIZE <text>, parseInt gives NaN                     *)
(*   sizeNoArg   LUT_3D_SIZE with nothing after it                          *)
(*   data        arg consecutive lines of three floats                      *)
(*   skipped     an empty line, a comment, a DOMAIN line, a malformed line  *)

CUBE_DEFAULT_SIZE == 32

CubeLine(kind, arg) == [kind |-> kind, arg |-> arg]

\* the body of the parse loop for one line; error is the message thrown
CubeParseLine(acc, line) ==
    IF acc.error # "none" THEN acc
    ELSE IF line.kind = "size"
    THEN IF line.arg < 2 \/ line.arg > 256
         THEN [acc EXCEPT !.error = "Invalid LUT_3D_SIZE"]
         ELSE [acc EXCEPT !.size = line.arg]
    ELSE IF line.kind = "sizeNaN"
    THEN [acc EXCEPT !.error = "Invalid LUT_3D_SIZE"]
    ELSE IF line.kind = "data"
    THEN [acc EXCEPT !.length = acc.length + 3 * line.arg]
    ELSE acc

RECURSIVE CubeParse(_, _, _)
CubeParse(lines, i, acc) ==
    IF i > Len(lines) THEN acc
    ELSE CubeParse(lines, i + 1, CubeParseLine(acc, lines[i]))

\* A variant that checks the size only.
validateLUTDataSizeOnly(size, dataLength) ==
    IF size < 2 \/ size > 256 THEN "Invalid LUT size"
    ELSE "none"

\* BaseFilterLoader.validateLUTData: the message thrown, or "none"
validateLUTData(size, dataLength) ==
    IF dataLength # size * size * size * 3 THEN "Invalid LUT data"
    ELSE IF size < 2 \/ size > 256 THEN "Invalid LUT size"
    ELSE "none"

\* CubeLoader.load(file): the LUT (size and table length) or the error
CubeLoad(lines) ==
    LET acc == CubeParse(lines, 1,
                   [size |-> CUBE_DEFAULT_SIZE, length |-> 0, error |-> "none"])
        invalid == IF acc.error # "none" THEN acc.error
                   ELSE validateLUTData(acc.size, acc.length)
    IN  IF invalid # "none"
        THEN [ok |-> FALSE, size |-> 0, length |-> 0, error |-> invalid]
        ELSE [ok |-> TRUE, size |-> acc.size, length |-> acc.length,
              error |-> "none"]

-----------------------------------------------------------------------------
(* SpecCube: CubeLoader.load applied to files of up to MaxCubeLines lines   *)
(* (a run of data lines counting as one).                                   *)

MaxCubeLines == 3

CubeLines ==
    {CubeLine("size", 2), CubeLine("size", 3), CubeLine("size", 1),
     CubeLine("size", 257), CubeLine("sizeNaN", 0), CubeLine("sizeNoArg", 0),
     CubeLine("data", 8), CubeLine("data", 9), CubeLine("data", 27),
     CubeLine("data", 32768), CubeLine("skipped", 0)}

CubeFiles == UNION {[1..n -> CubeLines] : n \in 0..MaxCubeLines}

\* one call loader.load(file) on a fresh page
CubeLoaderLoad(lines) ==
    /\ last' = [op |-> "CubeLoader.load", file |-> lines,
                result |-> CubeLoad(lines)]
    /\ steps = 0
    /\ steps' = steps + 1
    /\ UNCHANGED <<store, inflight, nextId, nextCall, filterReq, exports, hook>>

NextCube == steps = 0 /\ \E lines \in CubeFiles : CubeLoaderLoad(lines)

SpecCube == Init /\ [][NextCube]_vars

\* the LUT_3D_SIZE lines that carry a size, and the out-of-range ones
SizeLines(lines) == {i \in 1..Len(lines) : lines[i].kind \in {"size", "sizeNaN"}}
BadSizeLines(lines) ==
    {i \in SizeLines(lines) :
        lines[i].kind = "sizeNaN" \/ lines[i].arg \notin 2..256}

RECURSIVE DataValues(_)
DataValues(lines) ==
    IF lines = <<>> THEN 0
    ELSE (IF Head(lines).kind = "data" THEN 3 * Head(lines).arg ELSE 0)
         + DataValues(Tail(lines))

\* the size the file declares last, 32 when it declares none
DeclaredSize(lines) ==
    IF SizeLines(lines) = {} THEN CUBE_DEFAULT_SIZE
    ELSE lines[CHOOSE i \in SizeLines(lines) :
                   \A j \in SizeLines(lines) : j <= i].arg

\* C20 as stated: loading a .cube file succeeds only if the file has a
\* LUT_3D_SIZE line with a size in 2..256 and the number of parsed values is
\* size^3 * 3; a file with no LUT_3D_SIZE line, an out-of-range size or a
\* different number of values fails.
C20_CubeNeedsSizeLine ==
    last.op = "CubeLoader.load"
    => /\ (last.result.ok
           => /\ \E i \in 1..Len(last.file) :
                    last.file[i].kind = "size" /\ last.file[i].arg \in 2..256
              /\ DataValues(last.file)
                 = last.result.size * last.result.size * last.result.size * 3)
       /\ (BadSizeLines(last.file) # {} => ~last.result.ok)
       /\ ((\A i \in 1..Len(last.file) :
               last.file[i].kind \notin {"size", "sizeNaN", "sizeNoArg"})
           => ~last.result.ok)

\* C20 amended: loading a .cube file succeeds exactly if no LUT_3D_SIZE line
\* gives a size outside 2..256 and the number of parsed values is size^3 * 3,
\* where size is the last size given, or the default 32 when none is given.
C20_CubeSizeOrDefault ==
    last.op = "CubeLoader.load"
    => /\ last.result.ok
          <=> /\ BadSizeLines(last.file) = {}
              /\ DataValues(last.file)
                 = DeclaredSize(last.file) * DeclaredSize(last.file)
                   * DeclaredSize(last.file) * 3
       /\ (last.result.ok => last.result.size = DeclaredSize(last.file))

\* a file without any LUT_3D_SIZE line loaded as a 32-cube
C20_Witness ==
    /\ last.op = "CubeLoader.load"
    /\ last.result.ok
    /\ SizeLines(last.file) = {}
    /\ last.result.size = CUBE_DEFAULT_SIZE
    /\ last.result.length = 98304

-----------------------------------------------------------------------------
(* SpecCubeValues: CubeLoader.load of a size-2 cube whose eight data lines  *)
(* all carry the same three numbers r g b.                                  *)

\* r > 1 ? r / 255 : r
normalizeCubeValue(v) == IF RLt(One, v) THEN RDiv(v, Num(255)) ELSE v

CubeValues ==
    {Rat(-1, 2), Zero, Rat(1, 2), One, Num(2), Num(128), Num(255), Num(300)}

\* one call loader.load(file) on a fresh page; table holds the values one
\* data line pushes
LoadCubeValues(r, g, b) ==
    /\ last' = [op |-> "CubeLoader.load.values", values |-> <<r, g, b>>,
                result |-> CubeLoad(<<CubeLine("size", 2), CubeLine("data", 8)>>),
                table |-> <<normalizeCubeValue(r), normalizeCubeValue(g),
                            normalizeCubeValue(b)>>]
    /\ steps' = steps + 1
    /\ UNCHANGED <<store, inflight, nextId, nextCall, filterReq, exports, hook>>

NextCubeValues ==
    /\ steps = 0
    /\ \E r \in CubeValues, g \in CubeValues, b \in CubeValues :
            LoadCubeValues(r, g, b)

SpecCubeValues == Init /\ [][NextCubeValues]_vars

\* C21: every LUT produced by a successful load has all its table values in
\* [0, 1], whatever numbers (negative ones and ones above 255 included) stand
\* on the data lines.
C21_TableInUnitRange ==
    (last.op = "CubeLoader.load.values" /\ last.result.ok)
    => \A k \in 1..3 : RLe(Zero, last.table[k]) /\ RLe(last.table[k], One)

-----------------------------------------------------------------------------
(* Queue claims on SpecFilter, SpecTransform and SpecCrop.                  *)

\* C22: in every reachable store state activeImageId is null exactly when the
\* image queue is empty and otherwise is the id of an image in the queue.
C22_ActiveIdInQueue ==
    /\ (store.activeImageId = NoId) <=> (Len(store.images) = 0)
    /\ store.activeImageId # NoId => InQueue(store.images, store.activeImageId)

\* SpecQueue: imports, selection, removal and crop mode on a queue of up to
\* MaxImages images, with the edits that make an image's state distinguishable.
MaxQueueSteps == 7

QueueImageDims == {<<40, 20>>}
QueuePreviewSizes == {Size(300, 200)}
QueuePartials == {Partial(Num(10), Num(-5), Undefined)}
QueueCrops == {[createDefaultCrop EXCEPT !.x = Zero, !.width = Rat(1, 2)]}

QueueStep == steps < MaxQueueSteps

NextQueue ==
    \/ \E d \in QueueImageDims : QueueStep /\ LoadImageCall(d[1], d[2])
    \/ \E c \in inflight : QueueStep /\ LoadImageSettle(c)
    \/ \E d \in QueueImageDims : QueueStep /\ LoadImagesCall(<<d>>)
    \/ \E d \in QueueImageDims : QueueStep /\ LoadImagesCall(<<d, d>>)
    \/ \E c \in inflight : QueueStep /\ LoadImagesSettle(c)
    \/ \E id \in 1..MaxImages : QueueStep /\ SetActiveImage(id)
    \/ \E id \in 1..MaxImages : QueueStep /\ RemoveImage(id)
    \/ QueueStep /\ ClearAllImages
    \/ \E z \in QueuePreviewSizes : QueueStep /\ SetPreviewSize(z)
    \/ \E p \in QueuePartials : QueueStep /\ UpdateTransform(p)
    \/ QueueStep /\ ToggleCropMode
    \/ \E c \in QueueCrops : QueueStep /\ SetCrop(c)
    \/ QueueStep /\ ResetCrop
    \/ QueueStep /\ ResetTransform
    \/ QueueStep /\ FitImageToCanvas

SpecQueue == Init /\ [][NextQueue]_vars

\* C23: loadImages on a non-empty queue keeps the active image and leaves the
\* transform, crop, filter and isEdited flag of every image that was already
\* queued unchanged; the new images are appended behind them.
C23_LoadImagesFrame ==
    [][(last'.op = "loadImages" /\ Len(store.images) > 0)
       => /\ store'.activeImageId = store.activeImageId
          /\ Len(store'.images) > Len(store.images)
          /\ \A k \in 1..Len(store.images) :
                /\ store'.images[k].image.id = store.images[k].image.id
                /\ store'.images[k].transform = store.images[k].transform
                /\ store'.images[k].crop = store.images[k].crop
                /\ store'.images[k].filter = store.images[k].filter
                /\ store'.images[k].isEdited = store.images[k].isEdited]_vars

\* C25: whenever cropMode is true there is an active image and that image has
\* a non-null crop.
C25_CropModeHasCrop ==
    store.cropMode
    => /\ getActiveImageState(store) # Null
       /\ getActiveImageState(store).crop # Null

-----------------------------------------------------------------------------
(* SpecResize: one call of resizeCropFromHandle on a crop that satisfies    *)
(* the crop invariants, unlocked or locked to the aspect it already has.    *)

ResizeOrigins == {Zero, Rat(1, 4), Rat(1, 2)}
ResizeSizes == {Rat(1, 4), Rat(1, 2)}
ResizeDeltas == {Rat(-1, 2), Rat(-1, 10), Zero, Rat(1, 10), Rat(1, 2)}
ResizeImageAspects == {One, Num(2)}

\* unlocked crops of any shape, and square-in-normalized-space crops locked
\* to the pixel aspect they have on an image of aspect a
ResizeInputs ==
    {<<[x |-> x, y |-> y, width |-> w, height |-> h,
        aspectLock |-> FALSE, lockedAspect |-> Undefined], a>> :
        x \in ResizeOrigins, y \in ResizeOrigins, w \in ResizeSizes,
        h \in ResizeSizes, a \in {One}}
    \cup
    {<<[x |-> x, y |-> y, width |-> w, height |-> w,
        aspectLock |-> TRUE, lockedAspect |-> a], a>> :
        x \in ResizeOrigins, y \in ResizeOrigins, w \in ResizeSizes,
        a \in ResizeImageAspects}

ResizeCropFromHandle(crop, handle, dx, dy, imageAspect) ==
    /\ last' = [op |-> "resizeCropFromHandle", crop |-> crop, handle |-> handle,
                dx |-> dx, dy |-> dy,
                result |-> resizeCropFromHandle(crop, handle, dx, dy, imageAspect)]
    /\ steps' = steps + 1
    /\ UNCHANGED <<store, inflight, nextId, nextCall, filterReq, exports, hook>>

NextResize ==
    /\ steps = 0
    /\ \E i \in ResizeInputs, h \in Handles, dx \in ResizeDeltas, dy \in ResizeDeltas :
          ResizeCropFromHandle(i[1], h, dx, dy, i[2])

SpecResize == Init /\ [][NextResize]_vars

\* C24: a resize from a handle moves only the edges of the dragged handle:
\* e, se, ne keep x; s, se, sw keep y; w, nw, sw keep the right edge
\* x + width; n, nw, ne keep the bottom edge y + height.
C24_OppositeEdgeFixed ==
    last.op = "resizeCropFromHandle"
    => LET c == last.crop
           r == last.result
       IN  /\ last.handle \in {"e", "se", "ne"} => r.x = c.x
           /\ last.handle \in {"s", "se", "sw"} => r.y = c.y
           /\ last.handle \in {"w", "nw", "sw"}
                 => RAdd(r.x, r.width) = RAdd(c.x, c.width)
           /\ last.handle \in {"n", "nw", "ne"}
                 => RAdd(r.y, r.height) = RAdd(c.y, c.height)

-----------------------------------------------------------------------------
(* Re-centering on the crop, on SpecQueue.                                  *)

\* the transform that centers the active image's crop at its stored scale
CenteredOnCrop(s) ==
    LET a == getActiveImageState(s)
        centerOffset == getCropCenterOffset(a.image, a.crop)
    IN  /\ a.transform.x = RMul(RNeg(centerOffset.x), a.transform.scale)
        /\ a.transform.y = RMul(RNeg(centerOffset.y), a.transform.scale)

OffCenterCrop(s) ==
    LET a == getActiveImageState(s)
    IN  /\ a # Null
        /\ a.crop # Null
        /\ getCropCenterOffset(a.image, a.crop) # [x |-> Zero, y |-> Zero]

\* crop mode is left through Apply (toggleCropMode) with an off-center crop
AppliesCrop ==
    /\ last'.op = "toggleCropMode"
    /\ store.cropMode /\ ~store'.cropMode
    /\ OffCenterCrop(store)

\* resetTransform or fitImageToCanvas on an image with an off-center crop
\* and a known preview size
FitsCroppedImage ==
    /\ last'.op \in {"resetTransform", "fitImageToCanvas"}
    /\ store.previewSize # Null
    /\ OffCenterCrop(store)

\* C26 (as stated): when crop mode is left through Apply with a crop whose
\* center is not the image center, the transform is re-centered on the crop:
\* x = -centerOffset.x * scale and y = -centerOffset.y * scale.
C26_ApplyRecenters ==
    [][AppliesCrop => CenteredOnCrop(store')]_vars

\* C26 (amended): when an image with an off-center crop is fitted
\* (resetTransform or fitImageToCanvas with a known preview size) the
\* transform is re-centered on the crop: x = -centerOffset.x * scale and
\* y = -centerOffset.y * scale; leaving crop mode through Apply leaves the
\* transform of every image as it was.
C26_FitRecenters ==
    [][/\ FitsCroppedImage => CenteredOnCrop(store')
       /\ AppliesCrop =>
             /\ Len(store'.images) = Len(store.images)
             /\ \A k \in 1..Len(store.images) :
                   store'.images[k].transform = store.images[k].transform]_vars

\* an image whose off-center crop was applied has been fitted and now sits
\* away from the surface center
C26_Witness ==
    /\ last.op \in {"resetTransform", "fitImageToCanvas"}
    /\ ~store.cropMode
    /\ OffCenterCrop(store)
    /\ store.previewSize # Null
    /\ getActiveImageState(store).transform.x # Zero

-----------------------------------------------------------------------------
(* Ratio changes and preview resizes, on SpecTransform.                     *)

\* the queued image at position k of s has the fit for the preview size of s
FittedToPreview(s, k) ==
    s.images[k].transform
        = computeInitialTransform(s.images[k].image, s.previewSize.width,
                                  s.previewSize.height, s.images[k].crop)

\* C27: after setRatio or setCustomRatio has changed the resolved ratio by
\* more than 0.01 and the next setPreviewSize has been processed, every image
\* in the queue, not only the active one, has the fit for the new size.
C27_RatioChangeRefitsAll ==
    [][(/\ last.op \in {"setRatio", "setCustomRatio"}
        /\ store.previewSize # Null
        /\ store.needsInitialFit
        /\ last'.op = "setPreviewSize")
       => \A k \in 1..Len(store'.images) : FittedToPreview(store', k)]_vars

-----------------------------------------------------------------------------
(* SpecSnap: moving the active image with the center snap on and off.       *)

MaxSnapSteps == 5

SnapImageDims == {<<40, 20>>}
SnapPartials ==
    {Partial(x, y, Undefined) :
        x \in {Undefined, One, Num(2), Num(-3)}, y \in {Undefined, Rat(-3, 2)}}
SnapDeltas == {[x |-> Rat(-1, 2), y |-> Num(2)], [x |-> Rat(3, 2), y |-> Num(-2)]}

SnapStep == steps < MaxSnapSteps

NextSnap ==
    \/ \E d \in SnapImageDims : SnapStep /\ LoadImageCall(d[1], d[2])
    \/ \E c \in inflight : SnapStep /\ LoadImageSettle(c)
    \/ \E v \in BOOLEAN : SnapStep /\ SetCenterSnap(v)
    \/ \E p \in SnapPartials : SnapStep /\ UpdateTransform(p)
    \/ \E d \in SnapDeltas : SnapStep /\ NudgePosition(d)

SpecSnap == Init /\ [][NextSnap]_vars

\* the offset v as the claim says it is stored
StoredOffset(v, centerSnap) ==
    IF centerSnap /\ RLt(Num(-2), v) /\ RLt(v, Num(2)) THEN Zero ELSE v

\* the active image of s2 has the offsets of `resulting` as they are stored
\* under the centerSnap setting of s
StoresSnapped(s, s2, resulting) ==
    LET t == getActiveImageState(s2).transform
    IN  /\ t.x = StoredOffset(resulting.x, s.centerSnap)
        /\ t.y = StoredOffset(resulting.y, s.centerSnap)
        /\ s.centerSnap => /\ t.x = Zero \/ ~(RLt(Num(-2), t.x) /\ RLt(t.x, Num(2)))
                           /\ t.y = Zero \/ ~(RLt(Num(-2), t.y) /\ RLt(t.y, Num(2)))

-----------------------------------------------------------------------------
(* SpecSurface: preview resizes of a fitted image, on a small image and on  *)
(* a panorama too wide for the smallest scale.                              *)

MaxSurfaceSteps == 6

SurfaceImageDims == {<<40, 20>>, <<8000, 20>>}
SurfacePreviewSizes == {Size(600, 400), Size(300, 200), Size(300, 300)}
SurfacePartials == {Partial(Num(10), Num(-5), Undefined)}
SurfaceCrops == {[createDefaultCrop EXCEPT !.x = Zero, !.width = Rat(1, 2)]}

SurfaceStep == steps < MaxSurfaceSteps

NextSurface ==
    \/ \E d \in SurfaceImageDims : SurfaceStep /\ LoadImageCall(d[1], d[2])
    \/ \E c \in inflight : SurfaceStep /\ LoadImageSettle(c)
    \/ \E z \in SurfacePreviewSizes : SurfaceStep /\ SetPreviewSize(z)
    \/ \E p \in SurfacePartials : SurfaceStep /\ UpdateTransform(p)
    \/ \E c \in SurfaceCrops : SurfaceStep /\ SetCrop(c)
    \/ SurfaceStep /\ FitImageToCanvas

SpecSurface == Init /\ [][NextSurface]_vars

\* the drawn image (its cropped region, when it has a crop) of the active
\* image of s lies within the preview surface of s, which is centered on the
\* same origin as the transform
InsideSurface(s) ==
    LET a == getActiveImageState(s)
        eff == getEffectiveDimensions(a.image, a.crop)
        off == getCropCenterOffset(a.image, a.crop)
        cx == RAdd(a.transform.x, RMul(off.x, a.transform.scale))
        cy == RAdd(a.transform.y, RMul(off.y, a.transform.scale))
    IN  /\ RLe(RAdd(RAbs(cx), RHalf(RMul(eff.width, a.transform.scale))),
               RHalf(s.previewSize.width))
        /\ RLe(RAdd(RAbs(cy), RHalf(RMul(eff.height, a.transform.scale))),
               RHalf(s.previewSize.height))

\* the active image of s has the fit for the preview size of s and has not
\* been edited since
FittedUnedited(s) ==
    /\ getActiveImageState(s) # Null
    /\ s.previewSize # Null
    /\ ~getActiveImageState(s).isEdited
    /\ getActiveImageState(s).transform
          = computeInitialTransform(getActiveImageState(s).image,
                s.previewSize.width, s.previewSize.height,
                getActiveImageState(s).crop)

AspectChanges(old, new) ==
    RLt(ASPECT_RATIO_THRESHOLD, RAbs(RSub(Aspect(new), Aspect(old))))

\* 0.95 times the fit scale of the active image of s is not below SCALE.MIN
FitAboveMinimum(s) ==
    LET a == getActiveImageState(s)
    IN  RLe(SCALE_MIN,
            RMul(computeFitScale(a.image, s.previewSize.width,
                                 s.previewSize.height, a.crop),
                 SCALE_DEFAULT_MULTIPLIER))

-----------------------------------------------------------------------------
(* SpecHook: hooks/useExportImage.ts, one hook instance whose exportImage   *)
(* and exportAllImages are started while earlier exports are still at an    *)
(* await. A call is suspended at the render it awaits; the awaits that      *)
(* follow the last render (share sheet, delay between downloads) write no   *)
(* hook state and are part of the step that runs the finally block.         *)

MaxHookSteps == 6

HookImageDims == {<<40, 20>>}
HookPreviewSizes == {Size(300, 200)}
HookOutcomes == {"ok", "failed"}

ExportCalls == {c \in inflight : c.kind \in {"exportImage", "exportAllImages"}}

\* exportImage up to its first await
ExportImageCall ==
    /\ nextCall <= MaxCalls
    /\ IF getActiveImageState(store) = Null
       THEN /\ hook' = [hook EXCEPT !.error = "Import an image before exporting."]
            /\ last' = [op |-> "exportImage.call", id |-> NoId, call |-> 0,
                        outcome |-> "rejected"]
            /\ UNCHANGED <<inflight, nextCall>>
       ELSE /\ hook' = [hook EXCEPT !.isExporting = TRUE, !.error = Null]
            /\ inflight' = inflight \cup
                  {[kind |-> "exportImage", call |-> nextCall, index |-> 1, total |-> 1]}
            /\ nextCall' = nextCall + 1
            /\ last' = [op |-> "exportImage.call", id |-> ActiveId(store),
                        call |-> nextCall, outcome |-> "pending"]
    /\ steps' = steps + 1
    /\ UNCHANGED <<store, nextId, filterReq, exports>>

\* exportImage from the resolution of exportComposite to the finally block
ExportImageSettle(c, outcome) ==
    /\ c \in inflight
    /\ c.kind = "exportImage"
    /\ inflight' = inflight \ {c}
    /\ hook' = [hook EXCEPT
                  !.error = IF outcome = "failed" THEN "export failed" ELSE @,
                  !.isExporting = FALSE]
    /\ steps' = steps + 1
    /\ last' = [op |-> "exportImage", id |-> NoId, call |-> c.call, outcome |-> outcome]
    /\ UNCHANGED <<store, nextId, nextCall, filterReq, exports>>

\* exportAllImages up to its first await
ExportAllImagesCall ==
    /\ nextCall <= MaxCalls
    /\ IF Len(store.images) = 0 \/ store.previewSize = Null
       THEN /\ hook' = [hook EXCEPT !.error = IF Len(store.images) = 0
                                               THEN "No images to export."
                                               ELSE "Canvas not ready."]
            /\ last' = [op |-> "exportAllImages.call", id |-> NoId, call |-> 0,
                        outcome |-> "rejected"]
            /\ UNCHANGED <<inflight, nextCall>>
       ELSE /\ hook' = [isExporting |-> TRUE, error |-> Null,
                        exportProgress |-> [current |-> 1, total |-> Len(store.images)]]
            /\ inflight' = inflight \cup
                  {[kind |-> "exportAllImages", call |-> nextCall, index |-> 1,
                    total |-> Len(store.images)]}
            /\ nextCall' = nextCall + 1
            /\ last' = [op |-> "exportAllImages.call", id |-> NoId,
                        call |-> nextCall, outcome |-> "pending"]
    /\ steps' = steps + 1
    /\ UNCHANGED <<store, nextId, filterReq, exports>>

\* exportAllImages from the resolution of one exportSingleImage to the next
\* await, or to the finally block after the last image or a failure
ExportAllImagesResume(c, outcome) ==
    /\ c \in inflight
    /\ c.kind = "exportAllImages"
    /\ IF outcome = "ok" /\ c.index < c.total
       THEN /\ inflight' = (inflight \ {c}) \cup {[c EXCEPT !.index = c.index + 1]}
            /\ hook' = [hook EXCEPT !.exportProgress =
                           [current |-> c.index + 1, total |-> c.total]]
            /\ last' = [op |-> "exportAllImages.next", id |-> NoId, call |-> c.call,
                        outcome |-> "pending"]
       ELSE /\ inflight' = inflight \ {c}
            /\ hook' = [hook EXCEPT
                          !.error = IF outcome = "failed" THEN "export failed" ELSE @,
                          !.isExporting = FALSE,
                          !.exportProgress = Null]
            /\ last' = [op |-> "exportAllImages", id |-> NoId, call |-> c.call,
                        outcome |-> outcome]
    /\ steps' = steps + 1
    /\ UNCHANGED <<store, nextId, nextCall, filterReq, exports>>

HookStep == steps < MaxHookSteps

NextHook ==
    \/ \E d \in HookImageDims : HookStep /\ LoadImageCall(d[1], d[2])
    \/ \E c \in inflight : HookStep /\ LoadImageSettle(c)
    \/ \E d \in HookImageDims : HookStep /\ LoadImagesCall(<<d, d>>)
    \/ \E c \in inflight : HookStep /\ LoadImagesSettle(c)
    \/ \E z \in HookPreviewSizes : HookStep /\ SetPreviewSize(z)
    \/ HookStep /\ ExportImageCall
    \/ \E c \in inflight, o \in HookOutcomes : HookStep /\ ExportImageSettle(c, o)
    \/ HookStep /\ ExportAllImagesCall
    \/ \E c \in inflight, o \in HookOutcomes : HookStep /\ ExportAllImagesResume(c, o)

SpecHook == Init /\ [][NextHook]_vars

\* C30: isExporting is true whenever at least one export started through the
\* hook instance is still in progress, overlapping exports included, and
\* false once every started export has finished.
C30_IsExportingTracksExports ==
    hook.isExporting <=> (ExportCalls # {})

====
